---- MODULE Spec2Model ----
(***************************************************************************)
(* DataAlchemist: the modify-data pipeline (filter evaluation with type    *)
(* coercion, action application, validation of the result), the precedence *)
(* resolver of the allocation analyzer, validateData as the file upload    *)
(* runs it, and the browser side: Smart Insights and the merge of its      *)
(* issues, the DataModifier and its confirmation panel, the rule           *)
(* configurator, the allocation analysis of the page; as state machines    *)
(* over the values they receive.                                           *)
(*                                                                         *)
(* A JavaScript value is a record [t, n, b, s, a]: t is the result of       *)
(* typeof, except that null and arrays (typeof "object") keep their own    *)
(* tag; n is the number, b the boolean, s the string, a the array, each    *)
(* at a fixed default when t names another kind.  A string is the tuple    *)
(* of its characters, so that toLowerCase, parseFloat, includes,           *)
(* startsWith and endsWith are computed character by character.  Numbers   *)
(* are integers.                                                           *)
(***************************************************************************)
EXTENDS Integers, Sequences, FiniteSets, TLC

VARIABLES
    pc,            \* modify-data POST: "idle", "awaitingAI", "done"
    category,      \* request body: category
    currentData,   \* request body: currentData (the caller's rows)
    instructions,  \* the AI reply as parsed by the route (or what stood in its place)
    matched,       \* per row, the final value of matchesFilters in the row loop
    response,      \* the Response the route returned
    apc,           \* analyze-allocation POST: "idle", "awaitingAI", "done"
    rules,         \* request body of analyze-allocation: rules
    orderedRules,  \* the resolved order computed by analyze-allocation
    uploadStep,        \* FileUpload.handleFileChange: "idle", "parsing", "parsed", "rejected"
    uploadCategory,    \* the category of the upload card the file was dropped on
    parsedData,        \* the rows parseFile yields for the file
    allErrors,         \* the errors handed to onDataParsed
    clientsData,       \* page: the ParsedData held for the clients category, [data, errors]
    insightsStep,      \* handleRunSmartInsights: "idle", "fetching", "done"
    insightsClosure,   \* the clientsData the running handleRunSmartInsights closed over
    aiIdentifiedIssues,    \* result.aiIdentifiedIssues of the insights reply
    combined,          \* what combineErrors returned
    configuredRules,   \* RuleConfigurator: rules
    nextId,            \* the number of ids generateUniqueId has returned, plus one
    convertStep,       \* handleConvertNlToRule: "idle", "fetching"
    workersData,       \* page: the ParsedData held for the workers category
    tasksData,         \* page: the ParsedData held for the tasks category
    modifierStep,      \* DataModifier.handleModifyData: "idle", "fetching" (isLoading)
    confirmFlag,       \* the argument `confirm` of the handleModifyData in flight
    confirmationNeeded,    \* DataModifier: confirmationNeeded
    proposedInstructions,  \* DataModifier: proposedInstructions (NoInstructions for null)
    displayedInstructions, \* the proposal on display when Confirm & Apply Changes was clicked
    analysisStep,      \* handleAnalyzeAllocation: "idle", "fetching"
    analysisRequest,   \* the datasets in the body of the analyze-allocation request
    allocationAnalysisResult   \* page: allocationAnalysisResult

uploadVars == <<uploadStep, uploadCategory, parsedData, allErrors>>

dataVars == <<clientsData, workersData, tasksData>>

insightsVars == <<insightsStep, insightsClosure, aiIdentifiedIssues, combined>>

modifierVars ==
    <<modifierStep, confirmFlag, confirmationNeeded, proposedInstructions, displayedInstructions>>

analysisVars == <<analysisStep, analysisRequest, allocationAnalysisResult>>

\* the state held in the browser: the page and its components
configuratorVars == <<configuredRules, nextId, convertStep>>

clientVars == <<dataVars, insightsVars, configuratorVars, modifierVars, analysisVars>>

\* the state of the routes and of the upload
serverVars ==
    <<pc, category, currentData, instructions, matched, response, apc, rules, orderedRules,
      uploadVars>>

vars ==
    <<pc, category, currentData, instructions, matched, response, apc, rules, orderedRules,
      uploadVars, clientVars>>

(***************************************************************************)
(* Bounds of the explored inputs.                                          *)
(***************************************************************************)
MaxRows == 2
MaxFilters == 2
MaxActions == 2
MaxPlainRules == 3
MaxRuleIds == 2

(***************************************************************************)
(* Values.                                                                 *)
(***************************************************************************)
Val(t, n, b, s, a) == [t |-> t, n |-> n, b |-> b, s |-> s, a |-> a]
Str(s) == Val("string", 0, FALSE, s, <<>>)
Num(n) == Val("number", n, FALSE, <<>>, <<>>)
Bool(b) == Val("boolean", 0, b, <<>>, <<>>)
Null == Val("null", 0, FALSE, <<>>, <<>>)
Undefined == Val("undefined", 0, FALSE, <<>>, <<>>)
Arr(xs) == Val("array", 0, FALSE, <<>>, xs)
NaN == Val("NaN", 0, FALSE, <<>>, <<>>)

\* row[column]: undefined when the row has no such key
Get(row, column) == IF column \in DOMAIN row THEN row[column] ELSE Undefined

\* row[column] = value
Put(row, column, value) ==
    [c \in (DOMAIN row) \cup {column} |-> IF c = column THEN value ELSE row[c]]

\* a === b.  Two arrays are the same only when they are the same object; the
\* arrays compared here come from two different JSON documents (or from a
\* fresh spread), so they never are.
StrictEquals(a, b) ==
    /\ a.t = b.t
    /\ a.t # "array"
    /\ a = b

(***************************************************************************)
(* Strings.                                                                *)
(***************************************************************************)
UpperCase ==
    <<"A", "B", "C", "D", "E", "F", "G", "H", "I", "J", "K", "L", "M",
      "N", "O", "P", "Q", "R", "S", "T", "U", "V", "W", "X", "Y", "Z">>

LowerCase ==
    <<"a", "b", "c", "d", "e", "f", "g", "h", "i", "j", "k", "l", "m",
      "n", "o", "p", "q", "r", "s", "t", "u", "v", "w", "x", "y", "z">>

UpperToLower ==
    [c \in {UpperCase[i] : i \in 1..26} |-> LowerCase[CHOOSE i \in 1..26 : UpperCase[i] = c]]

toLowerCase(s) ==
    [i \in 1..Len(s) |-> IF s[i] \in DOMAIN UpperToLower THEN UpperToLower[s[i]] ELSE s[i]]

DigitValue ==
    [c \in {"0", "1", "2", "3", "4", "5", "6", "7", "8", "9"} |->
        CASE c = "0" -> 0 [] c = "1" -> 1 [] c = "2" -> 2 [] c = "3" -> 3
          [] c = "4" -> 4 [] c = "5" -> 5 [] c = "6" -> 6 [] c = "7" -> 7
          [] c = "8" -> 8 [] c = "9" -> 9]

IsDigit(c) == c \in DOMAIN DigitValue

IsWhiteSpace(c) == c = " "

\* index of the first character at or after i that is not white space
RECURSIVE SkipWhiteSpace(_, _)
SkipWhiteSpace(s, i) ==
    IF i <= Len(s) /\ IsWhiteSpace(s[i]) THEN SkipWhiteSpace(s, i + 1) ELSE i

\* index just after the run of digits that starts at i
RECURSIVE SkipDigits(_, _)
SkipDigits(s, i) ==
    IF i <= Len(s) /\ IsDigit(s[i]) THEN SkipDigits(s, i + 1) ELSE i

\* value of the digits s[i..j-1], with acc the value of the digits before i
RECURSIVE DigitsValue(_, _, _, _)
DigitsValue(s, i, j, acc) ==
    IF i >= j THEN acc ELSE DigitsValue(s, i + 1, j, 10 * acc + DigitValue[s[i]])

\* parseFloat(s) on strings without a decimal point or exponent: leading white
\* space is skipped, an optional sign and the longest run of digits are read,
\* whatever follows is ignored; NaN when no digit was read.
parseFloat(s) ==
    LET start == SkipWhiteSpace(s, 1)
        signed == start <= Len(s) /\ s[start] \in {"-", "+"}
        first == IF signed THEN start + 1 ELSE start
        last == SkipDigits(s, first)
        magnitude == DigitsValue(s, first, last, 0)
    IN  IF last = first THEN NaN
        ELSE IF signed /\ s[start] = "-" THEN Num(0 - magnitude)
        ELSE Num(magnitude)

isNaN(x) == x.t = "NaN"

\* s.startsWith(p)
startsWith(s, p) ==
    /\ Len(p) <= Len(s)
    /\ \A i \in 1..Len(p) : s[i] = p[i]

\* s.endsWith(p)
endsWith(s, p) ==
    /\ Len(p) <= Len(s)
    /\ \A i \in 1..Len(p) : s[Len(s) - Len(p) + i] = p[i]

\* s.includes(p)
includes(s, p) ==
    \E k \in 0..(Len(s) - Len(p)) : \A i \in 1..Len(p) : s[k + i] = p[i]

\* s.trim(), from its end
RECURSIVE TrimEnd(_)
TrimEnd(s) ==
    IF s # <<>> /\ IsWhiteSpace(s[Len(s)]) THEN TrimEnd(SubSeq(s, 1, Len(s) - 1)) ELSE s

\* s.trim()
trim(s) == TrimEnd(SubSeq(s, SkipWhiteSpace(s, 1), Len(s)))

DigitChar == <<"0", "1", "2", "3", "4", "5", "6", "7", "8", "9">>

\* the decimal digits of a natural number
RECURSIVE NaturalToString(_)
NaturalToString(n) ==
    IF n < 10 THEN <<DigitChar[n + 1]>>
    ELSE NaturalToString(n \div 10) \o <<DigitChar[(n % 10) + 1]>>

\* String(n) for an integer n
NumberToString(n) == IF n < 0 THEN <<"-">> \o NaturalToString(0 - n) ELSE NaturalToString(n)

\* String(value); an array is joined with commas, null and undefined elements
\* giving the empty string
RECURSIVE String(_)
String(value) ==
    LET element(e) == IF e.t \in {"null", "undefined"} THEN <<>> ELSE String(e)
        join[k \in 0..Len(value.a)] ==
            IF k = 0 THEN <<>>
            ELSE IF k = 1 THEN element(value.a[1])
            ELSE join[k - 1] \o <<",">> \o element(value.a[k])
    IN  CASE value.t = "string" -> value.s
          [] value.t = "number" -> NumberToString(value.n)
          [] value.t = "boolean" ->
               IF value.b THEN <<"t", "r", "u", "e">> ELSE <<"f", "a", "l", "s", "e">>
          [] value.t = "null" -> <<"n", "u", "l", "l">>
          [] value.t = "undefined" -> <<"u", "n", "d", "e", "f", "i", "n", "e", "d">>
          [] value.t = "NaN" -> <<"N", "a", "N">>
          [] value.t = "array" -> join[Len(value.a)]

\* Number(value) on strings without a decimal point or exponent: the trimmed
\* string is read as a whole, the empty string being 0
ToNumber(value) ==
    LET s == trim(String(value))
        first == IF s # <<>> /\ s[1] \in {"-", "+"} THEN 2 ELSE 1
        whole == first <= Len(s) /\ SkipDigits(s, first) > Len(s)
    IN  CASE value.t = "number" -> value
          [] value.t = "boolean" -> Num(IF value.b THEN 1 ELSE 0)
          [] value.t = "null" -> Num(0)
          [] value.t \in {"undefined", "NaN"} -> NaN
          [] OTHER -> IF s = <<>> THEN Num(0) ELSE IF whole THEN parseFloat(s) ELSE NaN

\* the value as the condition of an `if` or the left side of `&&`
Truthy(value) ==
    CASE value.t = "string" -> value.s # <<>>
      [] value.t = "number" -> value.n # 0
      [] value.t = "boolean" -> value.b
      [] value.t = "array" -> TRUE
      [] OTHER -> FALSE

(***************************************************************************)
(* validateData (lib/dataProcessor).  A ValidationError is                  *)
(* [row, column, message, severity]; message holds the fixed part of the   *)
(* message text, row is rowIndex + 1.                                      *)
(***************************************************************************)
ValidationError(row, column, message, severity) ==
    [row |-> row, column |-> column, message |-> message, severity |-> severity]

\* isEmpty(value)
isEmpty(value) ==
    \/ value.t \in {"null", "undefined"}
    \/ trim(String(value)) = <<>>

\* idColumnMap[category]; "" stands for undefined
IdColumn(fileCategory) ==
    CASE fileCategory = "clients" -> "clientId"
      [] fileCategory = "workers" -> "workerId"
      [] fileCategory = "tasks" -> "taskId"
      [] OTHER -> ""

\* the columns of the datasets, in the order the keys of a row were created:
\* the columns of the file in header order, then the column an action adds
Columns ==
    <<"clientId", "workerId", "taskId", "email", "status", "skills", "hourlyRate",
      "priority", "dueDate", "amount", "category", "duration", "tags", "flag">>

\* Object.keys(row)
ObjectKeys(row) == SelectSeq(Columns, LAMBDA key : key \in DOMAIN row)

\* the concatenation of a sequence of sequences
RECURSIVE Flatten(_)
Flatten(seqs) == IF seqs = <<>> THEN <<>> ELSE Head(seqs) \o Flatten(Tail(seqs))

\* Object.keys(row).forEach(...): one warning per key holding an empty value
EmptyValueErrors(row, rowIndex) ==
    LET keys == SelectSeq(ObjectKeys(row), LAMBDA key : isEmpty(row[key]))
    IN  [k \in 1..Len(keys) |->
            ValidationError(rowIndex, keys[k], "Empty value found in column", "warning")]

\* mutant of DuplicateIdErrors: the id is compared as it stands, untrimmed
RECURSIVE DuplicateIdErrorsUntrimmed(_, _, _, _)
DuplicateIdErrorsUntrimmed(data, idColumn, rowIndex, encounteredIds) ==
    IF rowIndex > Len(data) THEN <<>>
    ELSE LET row == data[rowIndex]
             present == idColumn # "" /\ Get(row, idColumn).t \notin {"undefined", "null"}
             idValue == String(Get(row, idColumn))
             duplicate == present /\ idValue # <<>> /\ idValue \in encounteredIds
         IN  EmptyValueErrors(row, rowIndex)
             \o (IF duplicate
                 THEN <<ValidationError(rowIndex, idColumn, "Duplicate ID found", "error")>>
                 ELSE <<>>)
             \o DuplicateIdErrorsUntrimmed(data, idColumn, rowIndex + 1,
                    IF present THEN encounteredIds \cup {idValue} ELSE encounteredIds)

\* the first data.forEach, from row rowIndex on: the empty-value warnings of
\* the row, then its duplicate-id error; encounteredIds holds the trimmed ids
\* of the rows before it
RECURSIVE DuplicateIdErrors(_, _, _, _)
DuplicateIdErrors(data, idColumn, rowIndex, encounteredIds) ==
    IF rowIndex > Len(data) THEN <<>>
    ELSE LET row == data[rowIndex]
             present == idColumn # "" /\ Get(row, idColumn).t \notin {"undefined", "null"}
             idValue == trim(String(Get(row, idColumn)))
             duplicate == present /\ idValue # <<>> /\ idValue \in encounteredIds
         IN  EmptyValueErrors(row, rowIndex)
             \o (IF duplicate
                 THEN <<ValidationError(rowIndex, idColumn, "Duplicate ID found", "error")>>
                 ELSE <<>>)
             \o DuplicateIdErrors(data, idColumn, rowIndex + 1,
                    IF present THEN encounteredIds \cup {idValue} ELSE encounteredIds)

\* mutant of MissingIdErrors: only an absent or null id is reported
MissingIdErrorsNoTrim(row, rowIndex, idColumn) ==
    IF Get(row, idColumn).t \in {"null", "undefined"}
    THEN <<ValidationError(rowIndex, idColumn, "Missing or empty critical identifier", "error")>>
    ELSE <<>>

\* if (isEmpty(row.clientId)) ... and its like for workerId and taskId
MissingIdErrors(row, rowIndex, idColumn) ==
    IF isEmpty(Get(row, idColumn))
    THEN <<ValidationError(rowIndex, idColumn, "Missing or empty critical identifier", "error")>>
    ELSE <<>>

\* emailRegex.test(s) for /^[^\s@]+@[^\s@]+\.[^\s@]+$/
EmailRegexTest(s) ==
    \E i, j \in 1..Len(s) :
        /\ s[i] = "@" /\ s[j] = "."
        /\ 1 < i /\ i + 1 < j /\ j < Len(s)
        /\ \A k \in 1..Len(s) : (k # i => s[k] # "@") /\ ~IsWhiteSpace(s[k])

validStatuses ==
    { <<"a", "c", "t", "i", "v", "e">>, <<"i", "n", "a", "c", "t", "i", "v", "e">>,
      <<"p", "e", "n", "d", "i", "n", "g">>, <<"v", "i", "p">> }

validPriorities ==
    { <<"h", "i", "g", "h">>, <<"m", "e", "d", "i", "u", "m">>, <<"l", "o", "w">>,
      <<"u", "r", "g", "e", "n", "t">> }

\* the email check of a clients row
EmailErrors(row, rowIndex) ==
    LET email == Get(row, "email")
    IN  IF /\ Truthy(email) /\ ~isEmpty(email)
           /\ email.t = "string" /\ ~EmailRegexTest(trim(email.s))
        THEN <<ValidationError(rowIndex, "email", "is not a valid email format", "warning")>>
        ELSE <<>>

\* the status check of a clients row, the priority check of a tasks row
EnumErrors(row, rowIndex, column, valid) ==
    LET value == Get(row, column)
    IN  IF /\ Truthy(value) /\ ~isEmpty(value)
           /\ toLowerCase(String(value)) \notin valid
        THEN <<ValidationError(rowIndex, column,
                               IF column = "status" THEN "is not a valid status"
                               ELSE "is not a valid priority",
                               "warning")>>
        ELSE <<>>

\* the skills and hourlyRate checks of a workers row
WorkerErrors(row, rowIndex) ==
    LET hourlyRate == Get(row, "hourlyRate")
        rate == ToNumber(hourlyRate)
    IN  (IF isEmpty(Get(row, "skills"))
         THEN <<ValidationError(rowIndex, "skills", "should be a non-empty value", "warning")>>
         ELSE <<>>)
        \o (IF ~isEmpty(hourlyRate) /\ (isNaN(rate) \/ rate.n <= 0)
            THEN <<ValidationError(rowIndex, "hourlyRate", "must be a positive number", "warning")>>
            ELSE <<>>)

\* !isNaN(new Date(s).getTime()) for the strings every engine reads alike: a
\* calendar date written YYYY-MM-DD is a valid date; a string of that form
\* whose month is not 01..12, and a word without any digit, are not (the
\* strings explored for dueDate are of these kinds, none naming a day past
\* the end of its month)
DateStringIsValid(s) ==
    /\ Len(s) = 10
    /\ \A k \in {1, 2, 3, 4, 6, 7, 9, 10} : IsDigit(s[k])
    /\ s[5] = "-" /\ s[8] = "-"
    /\ LET month == DigitsValue(s, 6, 8, 0)
           day == DigitsValue(s, 9, 11, 0)
       IN  /\ month \in 1..12
           /\ day >= 1
           /\ \/ day <= 28
              \/ day <= 30 /\ month # 2
              \/ day = 31 /\ month \in {1, 3, 5, 7, 8, 10, 12}

\* mutant of DueDateErrors: a dueDate of any other type is reported like an
\* unreadable date, as a warning
DueDateErrorsAllWarnings(row, rowIndex) ==
    LET dueDate == Get(row, "dueDate")
    IN  IF isEmpty(dueDate) THEN <<>>
        ELSE IF dueDate.t = "number" THEN <<>>
        ELSE IF dueDate.t = "string" /\ DateStringIsValid(dueDate.s) THEN <<>>
        ELSE <<ValidationError(rowIndex, "dueDate", "is not a valid date format", "warning")>>

\* the dueDate check of a tasks row (a number within the range of Date is a
\* valid time value)
DueDateErrors(row, rowIndex) ==
    LET dueDate == Get(row, "dueDate")
    IN  IF isEmpty(dueDate) THEN <<>>
        ELSE IF dueDate.t = "number" THEN <<>>
        ELSE IF dueDate.t = "string"
        THEN IF DateStringIsValid(dueDate.s) THEN <<>>
             ELSE <<ValidationError(rowIndex, "dueDate", "is not a valid date format", "warning")>>
        ELSE <<ValidationError(rowIndex, "dueDate", "Due Date must be a string or number", "error")>>

\* the body of the data.forEach of `switch (category)` for one row
CategoryErrors(row, rowIndex, fileCategory) ==
    CASE fileCategory = "clients" ->
           MissingIdErrors(row, rowIndex, "clientId")
           \o EmailErrors(row, rowIndex)
           \o EnumErrors(row, rowIndex, "status", validStatuses)
      [] fileCategory = "workers" ->
           MissingIdErrors(row, rowIndex, "workerId") \o WorkerErrors(row, rowIndex)
      [] fileCategory = "tasks" ->
           MissingIdErrors(row, rowIndex, "taskId")
           \o EnumErrors(row, rowIndex, "priority", validPriorities)
           \o DueDateErrors(row, rowIndex)
      [] OTHER -> <<>>

validateData(data, fileCategory) ==
    IF Len(data) = 0
    THEN <<ValidationError(0, "N/A", "No data to validate.", "warning")>>
    ELSE DuplicateIdErrors(data, IdColumn(fileCategory), 1, {})
         \o Flatten([rowIndex \in 1..Len(data) |-> CategoryErrors(data[rowIndex], rowIndex, fileCategory)])

(***************************************************************************)
(* modify-data: filter evaluation (the filter loop of POST).               *)
(***************************************************************************)
FilterOperators ==
    {"eq", "neq", "gt", "lt", "gte", "lte", "contains", "not_contains", "starts_with", "ends_with"}

\* mutant of NoColumnValue: only an absent column is caught, null goes on
NoColumnValueNullPasses(columnValue) == columnValue.t = "undefined"

\* columnValue === undefined || columnValue === null
NoColumnValue(columnValue) == columnValue.t \in {"undefined", "null"}

\* the if / else-if chain that harmonizes the two operands; the result is
\* <<compareColumnValue, filterValue>>
Harmonize(columnValue, value) ==
    IF columnValue.t = "string" /\ value.t = "number" /\ ~isNaN(parseFloat(columnValue.s))
    THEN <<parseFloat(columnValue.s), value>>
    ELSE IF columnValue.t = "number" /\ value.t = "string" /\ ~isNaN(parseFloat(value.s))
    THEN <<columnValue, parseFloat(value.s)>>
    ELSE IF columnValue.t = "string" /\ value.t = "boolean"
    THEN <<Bool(toLowerCase(columnValue.s) = <<"t", "r", "u", "e">>), value>>
    ELSE IF columnValue.t = "boolean" /\ value.t = "string"
    THEN <<columnValue, Bool(toLowerCase(value.s) = <<"t", "r", "u", "e">>)>>
    ELSE <<columnValue, value>>

\* mutant of OperatorHolds: a filter with an unknown operator is passed over
OperatorHoldsSkipsUnknown(operator, compareColumnValue, filterValue) ==
    LET bothStrings == compareColumnValue.t = "string" /\ filterValue.t = "string"
        bothNumbers == compareColumnValue.t = "number" /\ filterValue.t = "number"
        a == compareColumnValue.s
        b == filterValue.s
        x == compareColumnValue.n
        y == filterValue.n
    IN  CASE operator = "eq" ->
               IF bothStrings THEN toLowerCase(a) = toLowerCase(b)
               ELSE StrictEquals(compareColumnValue, filterValue)
          [] operator = "neq" ->
               IF bothStrings THEN toLowerCase(a) # toLowerCase(b)
               ELSE ~StrictEquals(compareColumnValue, filterValue)
          [] operator = "gt" -> bothNumbers /\ x > y
          [] operator = "lt" -> bothNumbers /\ x < y
          [] operator = "gte" -> bothNumbers /\ x >= y
          [] operator = "lte" -> bothNumbers /\ x <= y
          [] operator = "contains" -> bothStrings /\ includes(toLowerCase(a), toLowerCase(b))
          [] operator = "not_contains" -> bothStrings /\ ~includes(toLowerCase(a), toLowerCase(b))
          [] operator = "starts_with" -> bothStrings /\ startsWith(toLowerCase(a), toLowerCase(b))
          [] operator = "ends_with" -> bothStrings /\ endsWith(toLowerCase(a), toLowerCase(b))
          [] OTHER -> TRUE

\* the switch on filter.operator: TRUE when matchesFilters stays true
OperatorHolds(operator, compareColumnValue, filterValue) ==
    LET bothStrings == compareColumnValue.t = "string" /\ filterValue.t = "string"
        bothNumbers == compareColumnValue.t = "number" /\ filterValue.t = "number"
        a == compareColumnValue.s
        b == filterValue.s
        x == compareColumnValue.n
        y == filterValue.n
    IN  CASE operator = "eq" ->
               IF bothStrings THEN toLowerCase(a) = toLowerCase(b)
               ELSE StrictEquals(compareColumnValue, filterValue)
          [] operator = "neq" ->
               IF bothStrings THEN toLowerCase(a) # toLowerCase(b)
               ELSE ~StrictEquals(compareColumnValue, filterValue)
          [] operator = "gt" -> bothNumbers /\ x > y
          [] operator = "lt" -> bothNumbers /\ x < y
          [] operator = "gte" -> bothNumbers /\ x >= y
          [] operator = "lte" -> bothNumbers /\ x <= y
          [] operator = "contains" -> bothStrings /\ includes(toLowerCase(a), toLowerCase(b))
          [] operator = "not_contains" -> bothStrings /\ ~includes(toLowerCase(a), toLowerCase(b))
          [] operator = "starts_with" -> bothStrings /\ startsWith(toLowerCase(a), toLowerCase(b))
          [] operator = "ends_with" -> bothStrings /\ endsWith(toLowerCase(a), toLowerCase(b))
          [] OTHER -> FALSE

\* one pass of the body of `for (const filter of instructions.filters)`
FilterMatches(row, filter) ==
    LET columnValue == Get(row, filter.column)
        operands == Harmonize(columnValue, filter.value)
    IN  IF NoColumnValue(columnValue) THEN FALSE
        ELSE OperatorHolds(filter.operator, operands[1], operands[2])

\* mutant of FilterLoop: the loop stops at the first filter that matches
RECURSIVE FilterLoopAnyMatch(_, _, _)
FilterLoopAnyMatch(row, filters, k) ==
    IF k > Len(filters) THEN k = 1
    ELSE IF FilterMatches(row, filters[k]) THEN TRUE
    ELSE FilterLoopAnyMatch(row, filters, k + 1)

\* the filter loop from its k-th filter on: matchesFilters starts true and the
\* loop breaks at the first filter that sets it to false
RECURSIVE FilterLoop(_, _, _)
FilterLoop(row, filters, k) ==
    IF k > Len(filters) THEN TRUE
    ELSE IF ~FilterMatches(row, filters[k]) THEN FALSE
    ELSE FilterLoop(row, filters, k + 1)

matchesFilters(row, filters) == FilterLoop(row, filters, 1)

(***************************************************************************)
(* modify-data: action application (the action loop of POST).              *)
(***************************************************************************)
\* row[action.column] = value; rowChanged = true
Changed(state, action, value) ==
    [row |-> Put(state.row, action.column, value), rowChanged |-> TRUE]

\* case 'set'
SetValue(state, action) ==
    IF ~StrictEquals(Get(state.row, action.column), action.newValue)
    THEN Changed(state, action, action.newValue)
    ELSE state

\* mutant of AddValue: a numeric-looking string is read as a number and an
\* absent column starts from 0
AddValueCoercing(state, action, sign) ==
    LET originalValue == Get(state.row, action.column)
        newValue == action.newValue
        original == IF originalValue.t = "undefined" THEN Num(0) ELSE ToNumber(originalValue)
    IN  IF original.t = "number" /\ newValue.t = "number"
        THEN Changed(state, action, Num(original.n + sign * newValue.n))
        ELSE state

\* case 'increment' (sign 1) and case 'decrement' (sign -1)
AddValue(state, action, sign) ==
    LET originalValue == Get(state.row, action.column)
        newValue == action.newValue
    IN  IF originalValue.t = "number" /\ newValue.t = "number"
        THEN Changed(state, action, Num(originalValue.n + sign * newValue.n))
        ELSE state

\* mutant of Concatenate: two arrays are always joined current first
ConcatenateArraysCurrentFirst(state, action, newFirst) ==
    LET originalValue == Get(state.row, action.column)
        newValue == action.newValue
    IN  IF originalValue.t = "string" /\ newValue.t = "string"
        THEN Changed(state, action,
                     Str(IF newFirst THEN newValue.s \o originalValue.s
                         ELSE originalValue.s \o newValue.s))
        ELSE IF originalValue.t = "array" /\ newValue.t = "array"
        THEN Changed(state, action, Arr(originalValue.a \o newValue.a))
        ELSE state

\* case 'append' (newFirst false) and case 'prepend' (newFirst true)
Concatenate(state, action, newFirst) ==
    LET originalValue == Get(state.row, action.column)
        newValue == action.newValue
    IN  IF originalValue.t = "string" /\ newValue.t = "string"
        THEN Changed(state, action,
                     Str(IF newFirst THEN newValue.s \o originalValue.s
                         ELSE originalValue.s \o newValue.s))
        ELSE IF originalValue.t = "array" /\ newValue.t = "array"
        THEN Changed(state, action,
                     Arr(IF newFirst THEN newValue.a \o originalValue.a
                         ELSE originalValue.a \o newValue.a))
        ELSE state

\* one pass of the body of `for (const action of instructions.actions)`;
\* state is [row, rowChanged]; an action without an operation (or with any
\* other falsy one) carries operation ""
ApplyAction(state, action) ==
    LET operation == IF action.operation = "" THEN "set" ELSE action.operation
    IN  CASE operation = "set" -> SetValue(state, action)
          [] operation = "increment" -> AddValue(state, action, 1)
          [] operation = "decrement" -> AddValue(state, action, -1)
          [] operation = "append" -> Concatenate(state, action, FALSE)
          [] operation = "prepend" -> Concatenate(state, action, TRUE)
          [] OTHER -> state

\* mutant of ActionLoop: the loop ends at the first action that is skipped
RECURSIVE ActionLoopEndsAtSkip(_, _, _)
ActionLoopEndsAtSkip(state, actions, k) ==
    IF k > Len(actions) THEN state
    ELSE IF ApplyAction(state, actions[k]) = state THEN state
    ELSE ActionLoopEndsAtSkip(ApplyAction(state, actions[k]), actions, k + 1)

\* the action loop from its k-th action on
RECURSIVE ActionLoop(_, _, _)
ActionLoop(state, actions, k) ==
    IF k > Len(actions) THEN state
    ELSE ActionLoop(ApplyAction(state, actions[k]), actions, k + 1)

\* mutant of ProcessRow: the actions are applied whether or not the row matched
ProcessRowUnfiltered(row, filters, actions) ==
    [matchesFilters |-> matchesFilters(row, filters)] @@
    ActionLoop([row |-> row, rowChanged |-> FALSE], actions, 1)

\* one pass of the body of `for (let i = 0; i < updatedData.length; i++)`:
\* [matchesFilters, row after the pass, rowChanged]
ProcessRow(row, filters, actions) ==
    IF matchesFilters(row, filters)
    THEN [matchesFilters |-> TRUE] @@ ActionLoop([row |-> row, rowChanged |-> FALSE], actions, 1)
    ELSE [matchesFilters |-> FALSE, row |-> row, rowChanged |-> FALSE]

(***************************************************************************)
(* modify-data: the POST handler.                                          *)
(***************************************************************************)
FileCategory == {"clients", "workers", "tasks"}

\* JSON.parse(JSON.stringify(data)) on an array of rows: a key whose value is
\* undefined is dropped, every other value comes back as it was
JsonRow(row) == [c \in {k \in DOMAIN row : row[k] # Undefined} |-> row[c]]

JsonRoundTrip(data) == [i \in 1..Len(data) |-> JsonRow(data[i])]

\* the checks between the parse of the AI reply and the deep copy
\* (each one throws when it fails)
ValidStructure(instr) ==
    /\ instr.filters.isArray
    /\ instr.actions.isArray
    /\ instr.targetCategory.t = "string"
    /\ instr.description = "string"
    /\ instr.confirmationRequired.t = "boolean"

\* the row loop over updatedData, row by row
RowLoop(data, instr) ==
    [i \in 1..Len(data) |-> ProcessRow(data[i], instr.filters.items, instr.actions.items)]

\* rowsAffected after the row loop: the rows whose rowChanged ended true
RowsAffected(passes) == Cardinality({i \in 1..Len(passes) : passes[i].rowChanged})

\* Object.keys(currentData[0]), as a set
Headers(data) == IF Len(data) > 0 THEN DOMAIN data[1] ELSE {}

NoInstructions ==
    [filters |-> [isArray |-> FALSE, items |-> <<>>],
     actions |-> [isArray |-> FALSE, items |-> <<>>],
     targetCategory |-> [t |-> "undefined", s |-> ""],
     description |-> "undefined",
     confirmationRequired |-> [t |-> "undefined", b |-> FALSE]]

\* the body of a failure Response (the 400 return and the catch block);
\* Failure(0) stands for "no Response yet"
Failure(status) ==
    [status |-> status, success |-> FALSE, hasData |-> FALSE, headers |-> {},
     data |-> <<>>, errors |-> <<>>, rowCountAffected |-> 0, instructions |-> NoInstructions]

\* the body of the 200 Response, as the caller reads it back from JSON (the
\* message is left out of the record); validationErrors is what validateData
\* returns for updatedData
Success(data, passes, instr, validationErrors) ==
    [status |-> 200, success |-> TRUE, hasData |-> TRUE, headers |-> Headers(data),
     data |-> JsonRoundTrip([i \in 1..Len(passes) |-> passes[i].row]),
     errors |-> validationErrors,
     rowCountAffected |-> RowsAffected(passes), instructions |-> instr]

\* POST up to `await model.generateContent`: the 400 return for a missing
\* prompt, the throw for a missing API key
PostRequest(promptGiven, apiKeySet) ==
    /\ pc = "idle"
    /\ IF ~promptGiven
       THEN pc' = "done" /\ response' = Failure(400)
       ELSE IF ~apiKeySet
       THEN pc' = "done" /\ response' = Failure(500)
       ELSE pc' = "awaitingAI" /\ UNCHANGED response
    /\ UNCHANGED <<category, currentData, instructions, matched, apc, rules, orderedRules, uploadVars, clientVars>>

\* POST from the AI reply to the Response.  reply.kind is "noText" (no text
\* part in the reply), "notJson" (JSON.parse throws) or "json".
PostReply(reply) ==
    /\ pc = "awaitingAI"
    /\ pc' = "done"
    /\ IF reply.kind # "json"
       THEN /\ response' = Failure(500)
            /\ UNCHANGED <<instructions, matched>>
       ELSE /\ instructions' = reply.instructions
            /\ IF ~ValidStructure(reply.instructions)
               THEN /\ response' = Failure(500)
                    /\ UNCHANGED matched
               ELSE LET updatedData == JsonRoundTrip(currentData)
                        passes == RowLoop(updatedData, reply.instructions)
                        validationErrors ==
                            validateData([i \in 1..Len(passes) |-> passes[i].row], category)
                    IN  /\ matched' = [i \in 1..Len(passes) |-> passes[i].matchesFilters]
                        /\ response' = Success(currentData, passes, reply.instructions,
                                                validationErrors)
    /\ UNCHANGED <<category, currentData, apc, rules, orderedRules, uploadVars, clientVars>>

(***************************************************************************)
(* modify-data: the requests and AI replies explored.                      *)
(***************************************************************************)
\* all sequences over S of length at most n
SeqsUpTo(S, n) == UNION {[1..k -> S] : k \in 0..n}

CellStrings ==
    { <<>>, <<"4", "2">>, <<"4", "2", "a">>, <<" ", "4", "2">>, <<"a", "b">>, <<"A", "B">>,
      <<"t", "r", "u", "e">>, <<"T", "R", "U", "E">>, <<"f", "a", "l", "s", "e">>,
      <<"y", "e", "s">> }

CellValues ==
    {Str(s) : s \in CellStrings} \cup
    {Num(42), Num(7), Bool(TRUE), Bool(FALSE), Null, Arr(<<Num(1)>>)}

\* rows with the one column "amount", or with no column at all
AmountRows == {<<>>} \cup {[amount |-> v] : v \in CellValues}

\* one filter over "amount" (or over "flag", a column no such row has), with
\* any of the ten operators or one outside them, against any value
AmountFilters ==
    [column : {"amount", "flag"},
     operator : FilterOperators \cup {"regex"},
     value : CellValues \cup {Undefined}]

SetFlag == [column |-> "flag", newValue |-> Bool(TRUE), operation |-> ""]

Marketing == <<"M", "k", "t">>
Ops == <<"O", "p", "s">>

TaskRows ==
    { [category |-> Str(Marketing), duration |-> Num(10)],
      [category |-> Str(Ops), duration |-> Num(20)],
      [category |-> Null] }

TaskFilters ==
    { [column |-> "category", operator |-> "eq", value |-> Str(toLowerCase(Marketing))],
      [column |-> "duration", operator |-> "gte", value |-> Num(10)],
      [column |-> "duration", operator |-> "neq", value |-> Str(<<"2", "0">>)] }

TaskActions ==
    { [column |-> "duration", newValue |-> Num(5), operation |-> "increment"],
      SetFlag }

\* one action over "amount" (or over "flag", a column no such row has), with
\* any of the five operations, none, or one outside them
AmountActions ==
    [column : {"amount"},
     newValue : CellValues,
     operation : {"", "set", "increment", "decrement", "append", "prepend", "multiply"}]
    \cup
    [column : {"flag"},
     newValue : {Num(42), Str(<<"a", "b">>), Arr(<<Num(1)>>)},
     operation : {"", "set", "increment", "decrement", "append", "prepend", "multiply"}]

\* actions over "duration": two that build on each other, one that changes
\* nothing, one that is skipped on a number, one of an unknown operation
DurationActions ==
    { [column |-> "duration", newValue |-> Num(10), operation |-> "set"],
      [column |-> "duration", newValue |-> Num(5), operation |-> "increment"],
      [column |-> "duration", newValue |-> Num(0), operation |-> "increment"],
      [column |-> "duration", newValue |-> Str(<<"x">>), operation |-> "append"],
      [column |-> "duration", newValue |-> Num(2), operation |-> "multiply"] }

TagsRow == [tags |-> Arr(<<Num(1), Num(2)>>)]

TagsActions ==
    [column : {"tags"}, newValue : {Arr(<<Num(3)>>)}, operation : {"append", "prepend"}]

\* two rows of which only the second holds a number
MixedRows == <<[amount |-> Str(<<"a", "b">>)], [amount |-> Num(42)]>>

Datasets ==
    {<<r>> : r \in AmountRows} \cup SeqsUpTo(TaskRows, MaxRows) \cup {<<TagsRow>>, MixedRows}

\* a reply of the declared shape
Instructions(target, filters, actions) ==
    [filters |-> [isArray |-> TRUE, items |-> filters],
     actions |-> [isArray |-> TRUE, items |-> actions],
     targetCategory |-> [t |-> "string", s |-> target],
     description |-> "string",
     confirmationRequired |-> [t |-> "boolean", b |-> FALSE]]

WellFormed(target) ==
    {Instructions(target, <<f>>, <<SetFlag>>) : f \in AmountFilters} \cup
    {Instructions(target, fs, as) :
        fs \in SeqsUpTo(TaskFilters, MaxFilters), as \in SeqsUpTo(TaskActions, MaxActions)} \cup
    {Instructions(target, <<>>, <<a>>) : a \in AmountActions \cup TagsActions} \cup
    {Instructions(target, <<>>, as) : as \in SeqsUpTo(DurationActions, MaxActions)}

\* replies with one field missing, of the wrong type, or outside its enum
Malformed(target) ==
    LET base == Instructions(target, <<>>, <<SetFlag>>)
    IN  { [base EXCEPT !.filters.isArray = FALSE],
          [base EXCEPT !.actions.isArray = FALSE],
          [base EXCEPT !.targetCategory = [t |-> "undefined", s |-> ""]],
          [base EXCEPT !.targetCategory = [t |-> "string", s |-> "projects"]],
          [base EXCEPT !.description = "undefined"],
          [base EXCEPT !.confirmationRequired = [t |-> "undefined", b |-> FALSE]],
          [base EXCEPT !.confirmationRequired = [t |-> "string", b |-> FALSE]] }

Replies(target) ==
    {[kind |-> k, instructions |-> NoInstructions] : k \in {"noText", "notJson"}} \cup
    {[kind |-> "json", instructions |-> i] : i \in WellFormed(target) \cup Malformed(target)}

(***************************************************************************)
(* Specification of modify-data.                                           *)
(***************************************************************************)
UploadIdle ==
    /\ uploadStep = "idle"
    /\ uploadCategory = "clients"
    /\ parsedData = <<>>
    /\ allErrors = <<>>

AnalyzeIdle ==
    /\ apc = "idle"
    /\ rules = <<>>
    /\ orderedRules = <<>>

\* a page that holds no data
DataIdle ==
    /\ clientsData = [data |-> <<>>, errors |-> <<>>]
    /\ workersData = [data |-> <<>>, errors |-> <<>>]
    /\ tasksData = [data |-> <<>>, errors |-> <<>>]

\* no Smart Insights run
InsightsIdle ==
    /\ insightsStep = "idle"
    /\ insightsClosure = [data |-> <<>>, errors |-> <<>>]
    /\ aiIdentifiedIssues = <<>>
    /\ combined = <<>>

\* a configurator without rules
ConfiguratorIdle ==
    /\ configuredRules = <<>>
    /\ nextId = 1
    /\ convertStep = "idle"

\* a DataModifier that has proposed nothing
ModifierIdle ==
    /\ modifierStep = "idle"
    /\ confirmFlag = FALSE
    /\ confirmationNeeded = FALSE
    /\ proposedInstructions = NoInstructions
    /\ displayedInstructions = NoInstructions

\* no allocation analysis asked for; "none" stands for null
AnalysisIdle ==
    /\ analysisStep = "idle"
    /\ analysisRequest = <<>>
    /\ allocationAnalysisResult = "none"

ClientIdle == DataIdle /\ InsightsIdle /\ ConfiguratorIdle /\ ModifierIdle /\ AnalysisIdle

\* the requests explored, <<category, currentData>>: every dataset as tasks,
\* the datasets of one amount row under each category
Requests ==
    {<<"tasks", data>> : data \in Datasets} \cup
    {<<c, <<row>>>> : c \in FileCategory, row \in AmountRows}

InitModify ==
    /\ pc = "idle"
    /\ \E request \in Requests :
          /\ category = request[1]
          /\ currentData = request[2]
    /\ instructions = NoInstructions
    /\ matched = <<>>
    /\ response = Failure(0)
    /\ AnalyzeIdle
    /\ UploadIdle
    /\ ClientIdle

\* the replies explored, by request category
RepliesFor == [c \in FileCategory |-> Replies(c)]

\* POST resumes with whatever the AI replied
PostResume ==
    /\ pc = "awaitingAI"
    /\ \E reply \in RepliesFor[category] : PostReply(reply)

NextModify ==
    \/ \E promptGiven \in BOOLEAN, apiKeySet \in BOOLEAN : PostRequest(promptGiven, apiKeySet)
    \/ PostResume

SpecModify == InitModify /\ [][NextModify]_vars

(***************************************************************************)
(* analyze-allocation: the precedence resolver (orderedRules of POST).     *)
(* A rule is [id, type, isEnabled, ruleIds]; ruleIds is <<>> for every     *)
(* rule that is not a precedenceOverride.                                  *)
(***************************************************************************)
IsOverride(rule) == rule.type = "precedenceOverride"

\* mutant of ActiveRules: disabled rules are kept
ActiveRulesAll(rs) == rs

\* rules.filter(rule => rule.isEnabled)
ActiveRules(rs) == SelectSeq(rs, LAMBDA rule : rule.isEnabled)

\* activeRules.find(rule => rule.type === 'precedenceOverride'): <<rule>> for
\* the first one, <<>> for undefined
PrecedenceRule(activeRules) ==
    LET found == SelectSeq(activeRules, IsOverride)
    IN  IF found = <<>> THEN <<>> ELSE <<found[1]>>

\* new Map(activeRules.map(rule => [rule.id, rule])).get(ruleId): <<rule>> for
\* the last active rule with that id, <<>> for undefined
RulesMapGet(activeRules, ruleId) ==
    LET found == SelectSeq(activeRules, LAMBDA rule : rule.id = ruleId)
    IN  IF found = <<>> THEN <<>> ELSE <<found[Len(found)]>>

\* precedenceRule.ruleIds.map(...).filter(...), from the k-th listed id on
RECURSIVE ListedRules(_, _, _)
ListedRules(activeRules, ruleIds, k) ==
    IF k > Len(ruleIds) THEN <<>>
    ELSE LET got == RulesMapGet(activeRules, ruleIds[k])
             kept == got # <<>> /\ got[1].isEnabled /\ ~IsOverride(got[1])
         IN  (IF kept THEN got ELSE <<>>) \o ListedRules(activeRules, ruleIds, k + 1)

\* mutant of RulesNotInPrecedence: overrides are not left out
RulesNotInPrecedenceAnyType(activeRules, ordered) ==
    SelectSeq(activeRules,
              LAMBDA rule : ~\E j \in 1..Len(ordered) : ordered[j].id = rule.id)

\* activeRules.filter(rule => not an override and not among `ordered`)
RulesNotInPrecedence(activeRules, ordered) ==
    SelectSeq(activeRules,
              LAMBDA rule : /\ ~IsOverride(rule)
                            /\ ~\E j \in 1..Len(ordered) : ordered[j].id = rule.id)

\* mutant of OrderedRules: the rules the override does not list come first
OrderedRulesRestFirst(rs) ==
    LET activeRules == ActiveRules(rs)
        precedenceRule == PrecedenceRule(activeRules)
    IN  IF precedenceRule # <<>> /\ Len(precedenceRule[1].ruleIds) > 0
        THEN LET listed == ListedRules(activeRules, precedenceRule[1].ruleIds, 1)
             IN  RulesNotInPrecedence(activeRules, listed) \o listed
        ELSE SelectSeq(activeRules, LAMBDA rule : ~IsOverride(rule))

\* orderedRules as POST computes it from the request's rules
OrderedRules(rs) ==
    LET activeRules == ActiveRules(rs)
        precedenceRule == PrecedenceRule(activeRules)
    IN  IF precedenceRule # <<>> /\ Len(precedenceRule[1].ruleIds) > 0
        THEN LET listed == ListedRules(activeRules, precedenceRule[1].ruleIds, 1)
             IN  listed \o RulesNotInPrecedence(activeRules, listed)
        ELSE SelectSeq(activeRules, LAMBDA rule : ~IsOverride(rule))

\* RuleConfigurator: visibleRules
VisibleRules(rs) == SelectSeq(rs, LAMBDA rule : ~IsOverride(rule))

\* POST up to `await model.generateContent`, for a request that carries the
\* three datasets on a server that has its API key
AnalyzeRequest ==
    /\ apc = "idle"
    /\ apc' = "awaitingAI"
    /\ orderedRules' = OrderedRules(rules)
    /\ UNCHANGED <<rules, pc, category, currentData, instructions, matched, response, uploadVars, clientVars>>

\* POST from the AI reply to the Response
AnalyzeReply ==
    /\ apc = "awaitingAI"
    /\ apc' = "done"
    /\ UNCHANGED <<rules, orderedRules, pc, category, currentData, instructions, matched, response, uploadVars, clientVars>>

(***************************************************************************)
(* analyze-allocation: the rule collections explored.  Rule ids are unique *)
(* within a collection.                                                    *)
(***************************************************************************)
RuleId(i) == <<"R", i>>
OverrideId(i) == <<"P", i>>
UnknownId == <<"X", 1>>

PlainRule(i, enabled) ==
    [id |-> RuleId(i), type |-> "coRun", isEnabled |-> enabled, ruleIds |-> <<>>]

Override(i, enabled, ruleIds) ==
    [id |-> OverrideId(i), type |-> "precedenceOverride", isEnabled |-> enabled,
     ruleIds |-> ruleIds]

\* the increasing sequence of the elements of a set of integers
RECURSIVE Ascending(_)
Ascending(S) ==
    IF S = {} THEN <<>>
    ELSE LET m == CHOOSE x \in S : \A y \in S : x <= y
         IN  <<m>> \o Ascending(S \ {m})

Reverse(q) == [i \in 1..Len(q) |-> q[Len(q) + 1 - i]]

\* the rules that are no override: any subset of R1..Rn in creation order or
\* in the reverse order, at most one of them disabled
PlainCollections ==
    UNION { { [i \in 1..Len(order) |-> PlainRule(order[i], order[i] # disabled)] :
                disabled \in S \cup {0}, order \in {Ascending(S), Reverse(Ascending(S))} } :
            S \in SUBSET (1..MaxPlainRules) }

\* what an override may list: ids of plain rules (present or not, enabled or
\* not), its own id, an id no rule has; in any order, with repetitions
ListedIds == {RuleId(i) : i \in 1..MaxPlainRules} \cup {OverrideId(1), UnknownId}

\* at the end of the collection: no override, or the override P1
TrailingOverrides ==
    {<<>>} \cup
    {<<Override(1, enabled, ruleIds)>> :
        enabled \in BOOLEAN, ruleIds \in SeqsUpTo(ListedIds, MaxRuleIds)}

\* at the front of the collection: no override, or a second, enabled override
\* P2 that lists nothing, or itself and R1
LeadingOverrides ==
    {<<>>} \cup
    {<<Override(2, TRUE, ruleIds)>> : ruleIds \in {<<>>, <<OverrideId(2), RuleId(1)>>}}

RuleCollections ==
    {front \o plain \o back :
        front \in LeadingOverrides, plain \in PlainCollections, back \in TrailingOverrides}

(***************************************************************************)
(* Specification of analyze-allocation.                                    *)
(***************************************************************************)
ModifyIdle ==
    /\ pc = "idle"
    /\ category = "tasks"
    /\ currentData = <<>>
    /\ instructions = NoInstructions
    /\ matched = <<>>
    /\ response = Failure(0)

InitAnalyze ==
    /\ apc = "idle"
    /\ rules \in RuleCollections
    /\ orderedRules = <<>>
    /\ ModifyIdle
    /\ UploadIdle
    /\ ClientIdle

NextAnalyze ==
    \/ AnalyzeRequest
    \/ AnalyzeReply

SpecAnalyze == InitAnalyze /\ [][NextAnalyze]_vars

(***************************************************************************)
(* FileUpload: handleFileChange, from the choice of a file to onDataParsed. *)
(***************************************************************************)
\* handleFileChange up to `await parseFile(file)`: a file whose extension is
\* neither csv nor xlsx is refused
FileChosen(extensionAccepted) ==
    /\ uploadStep = "idle"
    /\ uploadStep' = IF extensionAccepted THEN "parsing" ELSE "rejected"
    /\ UNCHANGED <<uploadCategory, parsedData, allErrors>>
    /\ UNCHANGED <<pc, category, currentData, instructions, matched, response, apc, rules, orderedRules,
                   clientVars>>

\* handleFileChange from the result of parseFile on: allErrors is the errors
\* of parseFile (one warning for a sheet without any line, which has no rows)
\* followed by those of validateData
FileParsed(sheetIsEmpty) ==
    /\ uploadStep = "parsing"
    /\ sheetIsEmpty => parsedData = <<>>
    /\ uploadStep' = "parsed"
    /\ allErrors' =
          (IF sheetIsEmpty
           THEN <<ValidationError(0, "File", "The uploaded file is empty.", "warning")>>
           ELSE <<>>)
          \o validateData(parsedData, uploadCategory)
    /\ UNCHANGED <<uploadCategory, parsedData>>
    /\ UNCHANGED <<pc, category, currentData, instructions, matched, response, apc, rules, orderedRules,
                   clientVars>>

(***************************************************************************)
(* FileUpload: the files explored.                                         *)
(***************************************************************************)
C1Id == <<"C", "1">>

\* what the primary-key cell of a row may hold; Undefined stands for a row
\* without the column
IdValues ==
    { Undefined, Null, Str(<<>>), Str(<<" ">>), Str(C1Id), Str(C1Id \o <<" ">>),
      Str(<<"c", "1">>), Num(1), Str(<<"1">>) }

\* a row of the given cells, without the columns whose cell is Undefined
RowOf(cells) == [c \in {k \in DOMAIN cells : cells[k] # Undefined} |-> cells[c]]

\* rows holding the primary key of the category and nothing else
IdRows(idColumn) == {RowOf([c \in {idColumn} |-> v]) : v \in IdValues}

NotAnEmail == <<"n", "o", "t", "-", "a", "n", "-", "e", "m", "a", "i", "l">>
Foo == <<"F", "o", "o">>

EmailValues ==
    { Undefined, Null, Str(<<>>), Str(NotAnEmail), Str(<<"a", "@", "b", ".", "c">>),
      Str(<<" ", "a", "@", "b", ".", "c", " ">>), Str(<<"a", "@", "b">>),
      Str(<<"a", " ", "b", "@", "c", ".", "d">>), Str(<<"a", "@", "b", "@", "c", ".", "d">>),
      Num(42) }

StatusValues ==
    { Undefined, Null, Str(<<>>), Str(Foo), Str(<<"V", "I", "P">>),
      Str(<<"a", "c", "t", "i", "v", "e">>), Str(<<" ", "a", "c", "t", "i", "v", "e">>),
      Num(0), Num(7), Bool(FALSE) }

ClientRows ==
    {RowOf([clientId |-> id, email |-> email, status |-> status]) :
        id \in {Undefined, Str(C1Id)}, email \in EmailValues, status \in StatusValues}

WorkerRows ==
    {RowOf([workerId |-> Str(<<"W", "1">>), skills |-> skills, hourlyRate |-> rate]) :
        skills \in {Undefined, Str(<<>>), Str(<<"j", "s">>), Arr(<<>>), Arr(<<Str(<<"j", "s">>)>>)},
        rate \in {Undefined, Null, Str(<<>>), Num(0), Num(42), Str(<<"4", "2">>),
                  Str(<<"-", "7">>), Str(<<"a", "b">>), Bool(TRUE)}}

DatedTaskRows ==
    {RowOf([taskId |-> Str(<<"T", "1">>), priority |-> priority, dueDate |-> dueDate]) :
        priority \in {Undefined, Str(<<"H", "i", "g", "h">>), Str(Foo), Num(1)},
        dueDate \in {Undefined, Null, Str(<<>>), Str(<<" ">>), Num(42), Bool(TRUE), Bool(FALSE),
                     Arr(<<>>), Arr(<<Num(1)>>),
                     Str(<<"2", "0", "2", "4", "-", "0", "1", "-", "3", "1">>),
                     Str(<<"2", "0", "2", "4", "-", "1", "3", "-", "0", "1">>),
                     Str(<<"s", "o", "o", "n">>)}}

\* the uploads explored: <<category, rows>>
Uploads ==
    UNION {{<<c, data>> : data \in SeqsUpTo(IdRows(IdColumn(c)), MaxRows)} : c \in FileCategory}
    \cup {<<"clients", <<row>>>> : row \in ClientRows}
    \cup {<<"workers", <<row>>>> : row \in WorkerRows}
    \cup {<<"tasks", <<row>>>> : row \in DatedTaskRows}

(***************************************************************************)
(* Specification of FileUpload.                                            *)
(***************************************************************************)
InitUpload ==
    /\ uploadStep = "idle"
    /\ \E upload \in Uploads :
          /\ uploadCategory = upload[1]
          /\ parsedData = upload[2]
    /\ allErrors = <<>>
    /\ ModifyIdle
    /\ AnalyzeIdle
    /\ ClientIdle

NextUpload ==
    \/ \E extensionAccepted \in BOOLEAN : FileChosen(extensionAccepted)
    \/ \E sheetIsEmpty \in BOOLEAN : FileParsed(sheetIsEmpty)

SpecUpload == InitUpload /\ [][NextUpload]_vars

(***************************************************************************)
(* page: Smart Insights over the clients category.  An issue held by the   *)
(* page is a ValidationError with its optional fields suggestedCorrection, *)
(* isAIIdentified and aiConfidence, Undefined when absent; a               *)
(* suggestedCorrection is represented by its newValue.  A ParsedData is    *)
(* [data, errors]; NoParsedData stands for null.                           *)
(***************************************************************************)
NoParsedData == [data |-> <<>>, errors |-> <<>>]

\* a ValidationError as validateData builds it: none of the optional fields
WithoutOptionalFields(error) ==
    [row |-> error.row, column |-> error.column, message |-> error.message,
     severity |-> error.severity, suggestedCorrection |-> Undefined,
     isAIIdentified |-> Undefined, aiConfidence |-> Undefined]

AIValidationIssue(row, column, message, severity, suggestedCorrection, aiConfidence) ==
    [row |-> row, column |-> column, message |-> message, severity |-> severity,
     suggestedCorrection |-> suggestedCorrection, isAIIdentified |-> Bool(TRUE),
     aiConfidence |-> aiConfidence]

\* the characters of a column name
Characters(column) ==
    CASE column = "email" -> <<"e", "m", "a", "i", "l">>
      [] column = "Email" -> <<"E", "m", "a", "i", "l">>
      [] column = "EMAIL" -> <<"E", "M", "A", "I", "L">>
      [] column = "clientId" -> <<"c", "l", "i", "e", "n", "t", "I", "d">>
      [] column = "status" -> <<"s", "t", "a", "t", "u", "s">>

\* se.row === aiIssue.row && se.column.toLowerCase() === aiIssue.column.toLowerCase()
\* && se.message === aiIssue.message
SameIssue(se, aiIssue) ==
    /\ se.row = aiIssue.row
    /\ toLowerCase(Characters(se.column)) = toLowerCase(Characters(aiIssue.column))
    /\ se.message = aiIssue.message

\* combineErrors with the test on the existing suggestedCorrection left out
MergeDuplicateOverwriting(existingError, aiIssue) ==
    IF Truthy(aiIssue.suggestedCorrection)
    THEN [existingError EXCEPT !.suggestedCorrection = aiIssue.suggestedCorrection,
                               !.isAIIdentified = Bool(TRUE),
                               !.aiConfidence = aiIssue.aiConfidence]
    ELSE existingError

\* combineErrors, the branch of a duplicate once the existing entry is found
MergeDuplicate(existingError, aiIssue) ==
    IF Truthy(aiIssue.suggestedCorrection) /\ ~Truthy(existingError.suggestedCorrection)
    THEN [existingError EXCEPT !.suggestedCorrection = aiIssue.suggestedCorrection,
                               !.isAIIdentified = Bool(TRUE),
                               !.aiConfidence = aiIssue.aiConfidence]
    ELSE existingError

\* combined.find(...): the index of the first entry that matches, 0 for undefined
FindIndex(list, aiIssue) ==
    IF \E i \in 1..Len(list) : SameIssue(list[i], aiIssue)
    THEN CHOOSE i \in 1..Len(list) :
            /\ SameIssue(list[i], aiIssue)
            /\ \A k \in 1..(i - 1) : ~SameIssue(list[k], aiIssue)
    ELSE 0

\* aiIssues.forEach(...) from the j-th AI issue on.  The entries of
\* staticErrors are the objects combined started with; what the loop writes
\* to them leaves row, column and message alone, so isDuplicate is the same
\* on the entries as they were passed in.
RECURSIVE ForEachAiIssue(_, _, _, _)
ForEachAiIssue(staticErrors, result, aiIssues, j) ==
    IF j > Len(aiIssues) THEN result
    ELSE LET aiIssue == aiIssues[j]
             isDuplicate == \E i \in 1..Len(staticErrors) : SameIssue(staticErrors[i], aiIssue)
             existing == FindIndex(result, aiIssue)
         IN  ForEachAiIssue(staticErrors,
                            IF ~isDuplicate THEN Append(result, aiIssue)
                            ELSE IF existing = 0 THEN result
                            ELSE [result EXCEPT ![existing] = MergeDuplicate(@, aiIssue)],
                            aiIssues, j + 1)

combineErrors(staticErrors, aiIssues) == ForEachAiIssue(staticErrors, staticErrors, aiIssues, 1)

\* handleRunSmartInsights up to the `await fetch` for the clients category;
\* without any data it returns at once
RunSmartInsights ==
    /\ insightsStep = "idle"
    /\ clientsData # NoParsedData
    /\ insightsStep' = "fetching"
    /\ insightsClosure' = clientsData
    /\ allocationAnalysisResult' = "none"
    /\ UNCHANGED <<dataVars, aiIdentifiedIssues, combined, analysisStep, analysisRequest>>
    /\ UNCHANGED <<serverVars, configuratorVars, modifierVars>>

\* handleRunSmartInsights from the reply on: the clientsData it merges into
\* and hands to handleDataUpdate is the one of its closure; handleDataUpdate
\* stores it and clears the analysis result
InsightsReply(ok, issues) ==
    /\ insightsStep = "fetching"
    /\ IF ok
       THEN /\ insightsStep' = "merged"
            /\ aiIdentifiedIssues' = issues
            /\ combined' = combineErrors(insightsClosure.errors, issues)
            /\ clientsData' = [insightsClosure EXCEPT !.errors = combined']
            /\ allocationAnalysisResult' = "none"
       ELSE /\ insightsStep' = "failed"
            /\ UNCHANGED <<clientsData, aiIdentifiedIssues, combined, allocationAnalysisResult>>
    /\ UNCHANGED <<insightsClosure, workersData, tasksData, analysisStep, analysisRequest>>
    /\ UNCHANGED <<serverVars, configuratorVars, modifierVars>>

\* DataTable.handleCellChange(0, "email", newValue) on the clients table,
\* whose tableData is the data of the page, and the handleDataUpdate of the
\* page it ends with
CellChange(newValue) ==
    /\ clientsData.data # <<>>
    /\ LET updatedData == [clientsData.data EXCEPT ![1] = Put(@, "email", newValue)]
           reValidationErrors == validateData(updatedData, "clients")
       IN  clientsData' =
               [data |-> updatedData,
                errors |-> [i \in 1..Len(reValidationErrors) |->
                               WithoutOptionalFields(reValidationErrors[i])]]
    /\ allocationAnalysisResult' = "none"
    /\ UNCHANGED <<workersData, tasksData, analysisStep, analysisRequest>>
    /\ UNCHANGED <<serverVars, insightsVars, configuratorVars, modifierVars>>

(***************************************************************************)
(* Smart Insights: the pages and the replies explored.                     *)
(***************************************************************************)
MaxIssues == 2

ValidEmail == <<"a", "@", "b", ".", "c">>
Typo == "Looks like a typo"
InvalidFormat == "is not a valid email format"

\* the issues of a reply: the issue validateData raises on the email of row
\* 1 under another spelling of the column, with and without a correction;
\* an issue validateData does not raise, with and without a correction; the
\* issue of validateData on a row the data does not have
AiIssues ==
    { AIValidationIssue(1, "EMAIL", InvalidFormat, "warning", Str(ValidEmail), Num(1)),
      AIValidationIssue(1, "Email", InvalidFormat, "warning", Undefined, Num(1)),
      AIValidationIssue(1, "email", Typo, "warning", Str(<<"b">>), Undefined),
      AIValidationIssue(1, "Email", Typo, "warning", Undefined, Num(0)),
      AIValidationIssue(2, "email", InvalidFormat, "warning", Str(<<"c">>), Num(1)) }

AiReplies == SeqsUpTo(AiIssues, MaxIssues)

\* the issues an earlier run appended
AppendedEarlier ==
    SeqsUpTo({ AIValidationIssue(1, "Email", Typo, "warning", Undefined, Num(0)),
               AIValidationIssue(1, "email", Typo, "warning", Str(<<"d">>), Num(1)) },
             MaxIssues)

\* an issue as an earlier run filled it
FilledEarlier(error) ==
    [error EXCEPT !.suggestedCorrection = Str(<<"e">>), !.isAIIdentified = Bool(TRUE),
                  !.aiConfidence = Num(0)]

\* the clients data of the page: one row, the issues validateData raises on
\* it, as they are or as an earlier run filled them, then the issues an
\* earlier run appended
InsightPages ==
    UNION { LET data == <<[clientId |-> Str(C1Id), email |-> Str(email)]>>
                raised == validateData(data, "clients")
                static == [i \in 1..Len(raised) |-> WithoutOptionalFields(raised[i])]
            IN  { [data |-> data, errors |-> errors \o appended] :
                    errors \in {static, [i \in 1..Len(static) |-> FilledEarlier(static[i])]},
                    appended \in AppendedEarlier }
            : email \in {ValidEmail, NotAnEmail} }

\* the values typed into the email cell
TypedEmails == {Str(ValidEmail), Str(NotAnEmail)}

(***************************************************************************)
(* Specification of Smart Insights.                                        *)
(***************************************************************************)
InitInsights ==
    /\ clientsData \in InsightPages
    /\ insightsStep = "idle"
    /\ insightsClosure = NoParsedData
    /\ aiIdentifiedIssues = <<>>
    /\ combined = <<>>
    /\ workersData = NoParsedData
    /\ tasksData = NoParsedData
    /\ ConfiguratorIdle
    /\ ModifierIdle
    /\ AnalysisIdle
    /\ ModifyIdle
    /\ AnalyzeIdle
    /\ UploadIdle

NextInsights ==
    \/ RunSmartInsights
    \/ \E ok \in BOOLEAN, issues \in AiReplies : InsightsReply(ok, issues)
    \/ \E newValue \in TypedEmails : CellChange(newValue)

SpecInsights == InitInsights /\ [][NextInsights]_vars

(***************************************************************************)
(* DataModifier with the clients category selected and a prompt typed: the *)
(* request, the route (PostReply), the handling of the Response, the       *)
(* confirmation panel.  The buttons are disabled while isLoading.          *)
(***************************************************************************)
\* result.fullUpdatedData as a ParsedData of the page
FullUpdatedData(result) ==
    [data |-> result.data,
     errors |-> [i \in 1..Len(result.errors) |-> WithoutOptionalFields(result.errors[i])]]

\* the test of handleModifyData with its two operands swapped in meaning:
\* a proposal is shown when no confirmation is required
NeedsConfirmationInverted(result, confirm) ==
    ~result.instructions.confirmationRequired.b /\ ~confirm

\* result.instructions.confirmationRequired && !confirm
NeedsConfirmation(result, confirm) ==
    result.instructions.confirmationRequired.b /\ ~confirm

\* handleModifyData(confirm) up to `await fetch`, and POST of modify-data up
\* to its own await; handleModifyData(true) is what the Confirm & Apply
\* Changes button of the panel calls
ModifyData(confirm) ==
    /\ modifierStep = "idle"
    /\ confirm => (confirmationNeeded /\ proposedInstructions # NoInstructions)
    /\ clientsData # NoParsedData
    /\ Len(clientsData.data) # 0
    /\ modifierStep' = "fetching"
    /\ confirmFlag' = confirm
    /\ confirmationNeeded' = FALSE
    /\ proposedInstructions' = NoInstructions
    /\ displayedInstructions' = IF confirm THEN proposedInstructions ELSE NoInstructions
    /\ pc' = "awaitingAI"
    /\ category' = "clients"
    /\ currentData' = clientsData.data
    /\ instructions' = NoInstructions
    /\ matched' = <<>>
    /\ response' = Failure(0)
    /\ UNCHANGED <<apc, rules, orderedRules, uploadVars>>
    /\ UNCHANGED <<dataVars, insightsVars, configuratorVars, analysisVars>>

\* handleModifyData from the Response on
ModifyReply ==
    /\ modifierStep = "fetching"
    /\ pc = "done"
    /\ modifierStep' = "idle"
    /\ pc' = "idle"
    /\ IF response.status = 200 /\ response.success /\ response.hasData
       THEN IF NeedsConfirmation(response, confirmFlag)
            THEN /\ confirmationNeeded' = TRUE
                 /\ proposedInstructions' = response.instructions
                 /\ UNCHANGED <<clientsData, allocationAnalysisResult>>
            ELSE /\ clientsData' = FullUpdatedData(response)
                 /\ allocationAnalysisResult' = "none"
                 /\ proposedInstructions' = NoInstructions
                 /\ confirmationNeeded' = FALSE
       ELSE UNCHANGED <<clientsData, allocationAnalysisResult, confirmationNeeded,
                        proposedInstructions>>
    /\ UNCHANGED <<confirmFlag, displayedInstructions>>
    /\ UNCHANGED <<category, currentData, instructions, matched, response, apc, rules,
                   orderedRules, uploadVars>>
    /\ UNCHANGED <<workersData, tasksData, analysisStep, analysisRequest>>
    /\ UNCHANGED <<insightsVars, configuratorVars>>

\* handleCancelConfirmation
CancelConfirmation ==
    /\ modifierStep = "idle"
    /\ confirmationNeeded /\ proposedInstructions # NoInstructions
    /\ confirmationNeeded' = FALSE
    /\ proposedInstructions' = NoInstructions
    /\ UNCHANGED <<modifierStep, confirmFlag, displayedInstructions>>
    /\ UNCHANGED <<serverVars, dataVars, insightsVars, configuratorVars, analysisVars>>

(***************************************************************************)
(* DataModifier: the page and the AI replies explored.                     *)
(***************************************************************************)
\* the clients data of the page: one row and the issues validateData raises
ModifierPages ==
    { LET data == <<[clientId |-> Str(C1Id), email |-> Str(email)]>>
          raised == validateData(data, "clients")
      IN  [data |-> data,
           errors |-> [i \in 1..Len(raised) |-> WithoutOptionalFields(raised[i])]]
      : email \in {ValidEmail, NotAnEmail} }

SetStatusVip == [column |-> "status", newValue |-> Str(<<"V", "I", "P">>), operation |-> "set"]

\* set flag on every row, with and without confirmation; set status on every
\* row, with confirmation; a reply that is no JSON
ModifierReplies ==
    { [kind |-> "json",
       instructions |-> [Instructions("clients", <<>>, <<action>>)
                            EXCEPT !.confirmationRequired.b = required]] :
        action \in {SetFlag, SetStatusVip}, required \in BOOLEAN }
    \cup {[kind |-> "notJson", instructions |-> NoInstructions]}

\* POST of modify-data resumes with whatever the AI replied
ModifierFetch ==
    /\ modifierStep = "fetching"
    /\ \E reply \in ModifierReplies : PostReply(reply)

(***************************************************************************)
(* Specification of DataModifier.                                          *)
(***************************************************************************)
InitModifier ==
    /\ clientsData \in ModifierPages
    /\ workersData = NoParsedData
    /\ tasksData = NoParsedData
    /\ ModifierIdle
    /\ InsightsIdle
    /\ ConfiguratorIdle
    /\ AnalysisIdle
    /\ ModifyIdle
    /\ AnalyzeIdle
    /\ UploadIdle

NextModifier ==
    \/ \E confirm \in BOOLEAN : ModifyData(confirm)
    \/ ModifierFetch
    \/ ModifyReply
    \/ CancelConfirmation
    \/ \E newValue \in TypedEmails : CellChange(newValue)

SpecModifier == InitModifier /\ [][NextModifier]_vars

(***************************************************************************)
(* RuleConfigurator: the rules state and the handlers that write it.  A    *)
(* rule of the configurator is a rule as the resolver reads it with one    *)
(* more field, suggestedStructuredRule: the type of the structured rule a  *)
(* NaturalLanguage rule wraps, "" for a rule that wraps none.              *)
(* generateUniqueId is taken to return an id no rule has: R1, R2, ... for  *)
(* the rules created, P1 for the override.                                 *)
(***************************************************************************)
\* the number of rules created
MaxCreated == 2

\* ruleTypeOptions, by value
ruleTypeOptions == <<"coRun", "slotRestriction", "loadLimit", "phaseWindow", "patternMatch">>

\* currentPrecedenceRule: <<rule>> for the first override, <<>> for undefined
currentPrecedenceRule(rs) ==
    LET found == SelectSeq(rs, IsOverride)
    IN  IF found = <<>> THEN <<>> ELSE <<found[1]>>

\* handleSaveRule without an editingRule: the form's rule is appended under
\* a new id.  Nothing is saved without a type.
CreateRule(formType, formEnabled) ==
    /\ nextId <= MaxCreated
    /\ formType # ""
    /\ configuredRules' =
          Append(configuredRules,
                 [id |-> RuleId(nextId), type |-> formType, isEnabled |-> formEnabled,
                  ruleIds |-> <<>>, suggestedStructuredRule |-> ""])
    /\ nextId' = nextId + 1
    /\ UNCHANGED convertStep
    /\ UNCHANGED <<serverVars, dataVars, insightsVars, modifierVars, analysisVars>>

\* handleSaveRule with editingRule the i-th visible rule: formRule is a copy
\* of editingRule with the fields the form changed; the type of a
\* NaturalLanguage rule cannot be changed
SaveEditedRule(i, formType, formEnabled) ==
    /\ i \in 1..Len(VisibleRules(configuredRules))
    /\ formType # ""
    /\ LET editingRule == VisibleRules(configuredRules)[i]
           newOrUpdatedRule ==
               [editingRule EXCEPT
                   !.type = IF editingRule.type = "naturalLanguage" THEN @ ELSE formType,
                   !.isEnabled = formEnabled]
       IN  configuredRules' =
               [k \in 1..Len(configuredRules) |->
                   IF configuredRules[k].id = newOrUpdatedRule.id
                   THEN newOrUpdatedRule ELSE configuredRules[k]]
    /\ UNCHANGED <<nextId, convertStep>>
    /\ UNCHANGED <<serverVars, dataVars, insightsVars, modifierVars, analysisVars>>

\* handleToggleEnable(rule.id, !rule.isEnabled) on the i-th visible rule
ToggleEnable(i) ==
    /\ i \in 1..Len(VisibleRules(configuredRules))
    /\ LET rule == VisibleRules(configuredRules)[i]
       IN  configuredRules' =
               [k \in 1..Len(configuredRules) |->
                   IF configuredRules[k].id = rule.id
                   THEN [configuredRules[k] EXCEPT !.isEnabled = ~rule.isEnabled]
                   ELSE configuredRules[k]]
    /\ UNCHANGED <<nextId, convertStep>>
    /\ UNCHANGED <<serverVars, dataVars, insightsVars, modifierVars, analysisVars>>

\* handleRemoveRule(rule.id) on the i-th visible rule
RemoveRule(i) ==
    /\ i \in 1..Len(VisibleRules(configuredRules))
    /\ LET id == VisibleRules(configuredRules)[i].id
       IN  configuredRules' = SelectSeq(configuredRules, LAMBDA rule : rule.id # id)
    /\ UNCHANGED <<nextId, convertStep>>
    /\ UNCHANGED <<serverVars, dataVars, insightsVars, modifierVars, analysisVars>>

\* handleConvertNlToRule up to `await fetch`, for a prompt that is not blank
ConvertRequest ==
    /\ convertStep = "idle"
    /\ convertStep' = "fetching"
    /\ UNCHANGED <<configuredRules, nextId>>
    /\ UNCHANGED <<serverVars, dataVars, insightsVars, modifierVars, analysisVars>>

\* POST of generate-rule from the AI reply on: without a text it answers 500,
\* otherwise suggestedRule is JSON.parse of the text.  "" stands for no text,
\* "null" for the text null, any other value for a rule of that type.
GenerateRuleResponse(replyType) ==
    IF replyType = ""
    THEN [ok |-> FALSE, success |-> FALSE, suggestedRule |-> "null"]
    ELSE [ok |-> TRUE, success |-> TRUE, suggestedRule |-> replyType]

\* handleConvertNlToRule from the response on: a NaturalLanguage rule that
\* wraps the suggested rule is appended
ConvertReply(replyType) ==
    /\ convertStep = "fetching"
    /\ nextId <= MaxCreated
    /\ convertStep' = "idle"
    /\ LET result == GenerateRuleResponse(replyType)
       IN  IF result.ok /\ result.success /\ result.suggestedRule # "null"
           THEN /\ configuredRules' =
                      Append(configuredRules,
                             [id |-> RuleId(nextId), type |-> "naturalLanguage",
                              isEnabled |-> TRUE, ruleIds |-> <<>>,
                              suggestedStructuredRule |-> result.suggestedRule])
                /\ nextId' = nextId + 1
           ELSE UNCHANGED <<configuredRules, nextId>>
    /\ UNCHANGED <<serverVars, dataVars, insightsVars, modifierVars, analysisVars>>

\* onDragEnd: the two splices on the copy of visibleRules (indices from 1)
Reordered(visibleRules, source, destination) ==
    LET movedRule == visibleRules[source]
        without == SubSeq(visibleRules, 1, source - 1)
                   \o SubSeq(visibleRules, source + 1, Len(visibleRules))
    IN  SubSeq(without, 1, destination - 1) \o <<movedRule>>
        \o SubSeq(without, destination, Len(without))

\* onDragEnd: newPrecedenceRule
NewPrecedenceRule(rs, reorderedVisibleRules) ==
    [id |-> IF currentPrecedenceRule(rs) # <<>> THEN currentPrecedenceRule(rs)[1].id
            ELSE OverrideId(1),
     type |-> "precedenceOverride", isEnabled |-> TRUE,
     ruleIds |-> [k \in 1..Len(reorderedVisibleRules) |-> reorderedVisibleRules[k].id],
     suggestedStructuredRule |-> ""]

\* onDragEnd with the rules moved among all rules and the new override
\* appended to them
DragEndRulesKeepingOverride(rs, source, destination) ==
    LET reorderedVisibleRules == Reordered(VisibleRules(rs), source, destination)
    IN  reorderedVisibleRules \o SelectSeq(rs, IsOverride)
        \o <<NewPrecedenceRule(rs, reorderedVisibleRules)>>

\* onDragEnd with the new order written to the override only
DragEndRulesUnmoved(rs, source, destination) ==
    LET reorderedVisibleRules == Reordered(VisibleRules(rs), source, destination)
    IN  VisibleRules(rs) \o <<NewPrecedenceRule(rs, reorderedVisibleRules)>>

\* onDragEnd: what it hands to setRules
DragEndRules(rs, source, destination) ==
    LET reorderedVisibleRules == Reordered(VisibleRules(rs), source, destination)
    IN  reorderedVisibleRules \o <<NewPrecedenceRule(rs, reorderedVisibleRules)>>

\* onDragEnd for a drop inside the list
DragEnd(source, destination) ==
    /\ source \in 1..Len(VisibleRules(configuredRules))
    /\ destination \in 1..Len(VisibleRules(configuredRules))
    /\ configuredRules' = DragEndRules(configuredRules, source, destination)
    /\ UNCHANGED <<nextId, convertStep>>
    /\ UNCHANGED <<serverVars, dataVars, insightsVars, modifierVars, analysisVars>>

(***************************************************************************)
(* RuleConfigurator: the inputs explored.                                  *)
(***************************************************************************)
\* the types chosen in the form; "" is the form without a type
FormTypes == {"", "coRun", "loadLimit"}

\* what the AI replies to generate-rule
ReplyTypes == {"", "null", "coRun", "precedenceOverride", "naturalLanguage"}

(***************************************************************************)
(* Specification of RuleConfigurator.                                      *)
(***************************************************************************)
InitRules ==
    /\ configuredRules = <<>>
    /\ nextId = 1
    /\ convertStep = "idle"
    /\ DataIdle
    /\ InsightsIdle
    /\ ModifierIdle
    /\ AnalysisIdle
    /\ ModifyIdle
    /\ AnalyzeIdle
    /\ UploadIdle

NextRules ==
    \/ \E formType \in FormTypes, formEnabled \in BOOLEAN : CreateRule(formType, formEnabled)
    \/ \E i \in 1..MaxCreated, formType \in FormTypes, formEnabled \in BOOLEAN :
          SaveEditedRule(i, formType, formEnabled)
    \/ \E i \in 1..MaxCreated : ToggleEnable(i)
    \/ \E i \in 1..MaxCreated : RemoveRule(i)
    \/ ConvertRequest
    \/ \E replyType \in ReplyTypes : ConvertReply(replyType)
    \/ \E source \in 1..MaxCreated, destination \in 1..MaxCreated :
          DragEnd(source, destination)

SpecRules == InitRules /\ [][NextRules]_vars

(***************************************************************************)
(* page: the allocation analysis.  allocationAnalysisResult is "none" for  *)
(* null, "success" for the result of the route, "failure" for the record   *)
(* the page builds when the route or the fetch fails.                      *)
(***************************************************************************)
\* a ParsedData as FileUpload hands it to onDataParsed
Parsed(data, fileCategory) ==
    LET raised == validateData(data, fileCategory)
    IN  [data |-> data,
         errors |-> [i \in 1..Len(raised) |-> WithoutOptionalFields(raised[i])]]

\* handleDataParsed(category, data)
DataParsed(fileCategory, data) ==
    /\ CASE fileCategory = "clients" ->
                clientsData' = Parsed(data, fileCategory) /\ UNCHANGED <<workersData, tasksData>>
         [] fileCategory = "workers" ->
                workersData' = Parsed(data, fileCategory) /\ UNCHANGED <<clientsData, tasksData>>
         [] fileCategory = "tasks" ->
                tasksData' = Parsed(data, fileCategory) /\ UNCHANGED <<clientsData, workersData>>
    /\ allocationAnalysisResult' = "none"
    /\ UNCHANGED <<analysisStep, analysisRequest>>
    /\ UNCHANGED <<serverVars, insightsVars, configuratorVars, modifierVars>>

\* the rules in the body of the analyze-allocation request, whatever rules
\* the configurator holds
RequestRules(rs) == <<>>

\* handleAnalyzeAllocation up to `await fetch`, and POST of
\* analyze-allocation up to its own await
AnalyzeAllocation ==
    /\ analysisStep = "idle"
    /\ clientsData # NoParsedData /\ workersData # NoParsedData /\ tasksData # NoParsedData
    /\ analysisStep' = "fetching"
    /\ allocationAnalysisResult' = "none"
    /\ analysisRequest' =
          <<[clientsData |-> clientsData.data, workersData |-> workersData.data,
             tasksData |-> tasksData.data]>>
    /\ rules' = RequestRules(configuredRules)
    /\ orderedRules' = OrderedRules(rules')
    /\ apc' = "awaitingAI"
    /\ UNCHANGED <<pc, category, currentData, instructions, matched, response, uploadVars>>
    /\ UNCHANGED <<dataVars, insightsVars, configuratorVars, modifierVars>>

\* handleAnalyzeAllocation from the Response on; a fetch that throws ends
\* like a Response that is not ok
AnalysisReply(ok) ==
    /\ analysisStep = "fetching"
    /\ apc = "done"
    /\ analysisStep' = "idle"
    /\ allocationAnalysisResult' = IF ok THEN "success" ELSE "failure"
    /\ UNCHANGED analysisRequest
    /\ UNCHANGED <<serverVars, dataVars, insightsVars, configuratorVars, modifierVars>>

(***************************************************************************)
(* page: the uploads and the configurators explored.                       *)
(***************************************************************************)
\* the files uploaded, <<category, rows>>
PageUploads ==
    {<<"clients", <<[clientId |-> Str(C1Id), email |-> Str(email)]>>>> :
        email \in {ValidEmail, NotAnEmail}}
    \cup {<<"workers", <<[workerId |-> Str(<<"W", id>>)]>>>> : id \in {"1", "2"}}
    \cup {<<"tasks", <<[taskId |-> Str(<<"T", id>>)]>>>> : id \in {"1", "2"}}

\* a configurator without rules, or with the one rule R1 created in it
PageConfigurators ==
    { [rules |-> <<>>, nextId |-> 1],
      [rules |-> <<[id |-> RuleId(1), type |-> "coRun", isEnabled |-> TRUE, ruleIds |-> <<>>,
                    suggestedStructuredRule |-> ""]>>,
       nextId |-> 2] }

(***************************************************************************)
(* Specification of the allocation analysis of the page.                   *)
(***************************************************************************)
InitPage ==
    /\ DataIdle
    /\ \E configurator \in PageConfigurators :
          /\ configuredRules = configurator.rules
          /\ nextId = configurator.nextId
    /\ convertStep = "idle"
    /\ InsightsIdle
    /\ ModifierIdle
    /\ AnalysisIdle
    /\ ModifyIdle
    /\ AnalyzeIdle
    /\ UploadIdle

NextPage ==
    \/ \E upload \in PageUploads : DataParsed(upload[1], upload[2])
    \/ \E newValue \in TypedEmails : CellChange(newValue)
    \/ AnalyzeAllocation
    \/ AnalyzeReply
    \/ \E ok \in BOOLEAN : AnalysisReply(ok)

SpecPage == InitPage /\ [][NextPage]_vars

(***************************************************************************)
(* Properties of modify-data.                                              *)
(***************************************************************************)
Answered == pc = "done" /\ response.success

Filters == instructions.filters.items

Actions == instructions.actions.items

\* every filter of the list, taken alone, matches the row
EveryFilterMatches(row, filters) ==
    \A k \in 1..Len(filters) : FilterMatches(row, filters[k])

\* C1: an instruction of invalid shape (filters or actions not an array,
\* targetCategory not a string or not one of clients, workers, tasks) is
\* rejected as a whole: the response is a failure and carries no dataset.
C1_InvalidShapeRejected ==
    (/\ pc = "done"
     /\ \/ ~instructions.filters.isArray
        \/ ~instructions.actions.isArray
        \/ instructions.targetCategory.t # "string"
        \/ instructions.targetCategory.s \notin FileCategory)
    => (~response.success /\ ~response.hasData)

\* C2: the caller's rows are never changed; the returned dataset has as many
\* rows as the request, row i of the one answering row i of the other (they
\* agree on every column no action names), and a row that some filter does not
\* match comes back equal to its input row.
C2_RowsKept ==
    Answered =>
        /\ Len(response.data) = Len(currentData)
        /\ \A i \in 1..Len(currentData) :
              /\ \A c \in (DOMAIN currentData[i]) \ {Actions[k].column : k \in 1..Len(Actions)} :
                    Get(response.data[i], c) = currentData[i][c]
              /\ ~EveryFilterMatches(currentData[i], Filters) =>
                    response.data[i] = currentData[i]

C2_FrameEffect == [](C2_RowsKept) /\ [][currentData' = currentData]_vars

\* C2 witness: an answered request of two rows, one matched and changed, the
\* other not matched.
C2_Witness ==
    /\ Answered
    /\ Len(currentData) = 2
    /\ matched[1] /\ response.data[1] # currentData[1]
    /\ ~matched[2] /\ Len(Actions) > 0

\* C7: a row matches the filter list exactly when every filter of the list
\* matches it; with an empty list every row matches and comes back as the
\* actions leave it.
C7_FiltersAndCombined ==
    Answered =>
        \A i \in 1..Len(currentData) :
            /\ matched[i] = EveryFilterMatches(currentData[i], Filters)
            /\ Filters = <<>> =>
                  /\ matched[i]
                  /\ response.data[i] =
                        JsonRow(ActionLoop([row |-> currentData[i], rowChanged |-> FALSE],
                                           Actions, 1).row)

\* C7 witness: two filters, a row that passes the first and fails the second,
\* and another row that passes both.
C7_Witness ==
    /\ Answered
    /\ Len(Filters) = 2
    /\ \E i, j \in 1..Len(currentData) :
          /\ matched[i]
          /\ ~matched[j]
          /\ FilterMatches(currentData[j], Filters[1])

\* C8: whatever the operator, a filter on a column that the row lacks or holds
\* as null does not match: the row is excluded and comes back unchanged.
C8_NoValueNoMatch ==
    Answered =>
        \A i \in 1..Len(currentData) :
            (\E k \in 1..Len(Filters) :
                \/ Filters[k].column \notin DOMAIN currentData[i]
                \/ currentData[i][Filters[k].column] = Null)
            => (~matched[i] /\ response.data[i] = currentData[i])

\* C8 witness: a neq or not_contains filter against a row holding null in the
\* filtered column.
C8_Witness ==
    /\ Answered
    /\ Len(currentData) = 1 /\ Len(Filters) = 1
    /\ Filters[1].operator \in {"neq", "not_contains"}
    /\ Filters[1].column \in DOMAIN currentData[1]
    /\ currentData[1][Filters[1].column] = Null
    /\ ~matched[1]

\* the string, trimmed of white space, is an optional sign followed by digits
\* and nothing else
ParsesCleanly(s) ==
    LET start == SkipWhiteSpace(s, 1)
        first == IF start <= Len(s) /\ s[start] \in {"-", "+"} THEN start + 1 ELSE start
        last == SkipDigits(s, first)
    IN  last > first /\ SkipWhiteSpace(s, last) > Len(s)

\* the one filter of the request compared with the `amount` of its one row
OneFilterOneRow ==
    /\ Answered
    /\ Len(currentData) = 1 /\ Len(Filters) = 1
    /\ Filters[1].column \in DOMAIN currentData[1]

\* C9: a string operand facing a number is coerced exactly when the whole
\* string parses cleanly to a number; then eq matches iff the numbers are
\* equal and neq iff they differ; a string that does not parse cleanly stays a
\* string, which no number strictly equals.
C9_CleanNumericCoercion ==
    OneFilterOneRow =>
        LET columnValue == currentData[1][Filters[1].column]
            value == Filters[1].value
            columnIsString == columnValue.t = "string" /\ value.t = "number"
            valueIsString == columnValue.t = "number" /\ value.t = "string"
            string == IF columnIsString THEN columnValue.s ELSE value.s
            number == IF columnIsString THEN value.n ELSE columnValue.n
            equal == ParsesCleanly(string) /\ parseFloat(string) = Num(number)
        IN  (columnIsString \/ valueIsString) =>
                /\ Filters[1].operator = "eq" => (matched[1] <=> equal)
                /\ Filters[1].operator = "neq" => (matched[1] <=> ~equal)

\* C10: a string operand facing a boolean is coerced only when it is "true" or
\* "false" in any letter case; any other string stays a string, so eq against
\* the boolean does not match.
C10_BooleanLiteralCoercion ==
    OneFilterOneRow =>
        LET columnValue == currentData[1][Filters[1].column]
            value == Filters[1].value
            columnIsString == columnValue.t = "string" /\ value.t = "boolean"
            valueIsString == columnValue.t = "boolean" /\ value.t = "string"
            string == toLowerCase(IF columnIsString THEN columnValue.s ELSE value.s)
            boolean == IF columnIsString THEN value.b ELSE columnValue.b
            literal == string \in {<<"t", "r", "u", "e">>, <<"f", "a", "l", "s", "e">>}
        IN  ((columnIsString \/ valueIsString) /\ Filters[1].operator = "eq") =>
                (matched[1] <=> (literal /\ (string = <<"t", "r", "u", "e">>) = boolean))

\* the filter cannot hold for the row because of the types of its operands
\* (as they are after coercion) or because its operator is not one of the ten
FailsClosed(row, filter) ==
    LET operands == Harmonize(Get(row, filter.column), filter.value)
        numbers == operands[1].t = "number" /\ operands[2].t = "number"
        strings == operands[1].t = "string" /\ operands[2].t = "string"
    IN  \/ filter.operator \in {"gt", "lt", "gte", "lte"} /\ ~numbers
        \/ filter.operator \in {"contains", "not_contains", "starts_with", "ends_with"} /\ ~strings
        \/ filter.operator \notin FilterOperators

\* C11: whatever the filters of a well-shaped instruction, the request is
\* answered with one row per input row; a row facing an ordering operator
\* whose operands are not both numbers after coercion, a substring operator
\* whose operands are not both strings, or an operator outside the ten, is
\* not matched and comes back unchanged.
C11_FiltersFailClosed ==
    (pc = "done" /\ ValidStructure(instructions)) =>
        /\ response.success
        /\ Len(response.data) = Len(currentData)
        /\ \A i \in 1..Len(currentData) :
              (\E k \in 1..Len(Filters) : FailsClosed(currentData[i], Filters[k]))
              => (~matched[i] /\ response.data[i] = currentData[i])

\* C11 witness: `amount gt 7` over a row holding "ab" and a row holding 42: the
\* first is excluded, the second is matched and gets the flag.
C11_Witness ==
    /\ Answered
    /\ currentData = MixedRows
    /\ Len(Filters) = 1 /\ Filters[1].operator = "gt" /\ Filters[1].value = Num(7)
    /\ ~matched[1] /\ response.data[1] = currentData[1]
    /\ matched[2] /\ Get(response.data[2], "flag") = Bool(TRUE)

\* row i of the request after the first k actions of the instruction, applied
\* one after the other: [row, rowChanged]
RECURSIVE AfterActions(_, _)
AfterActions(i, k) ==
    IF k = 0 THEN [row |-> currentData[i], rowChanged |-> FALSE]
    ELSE ApplyAction(AfterActions(i, k - 1), Actions[k])

\* the instruction has one action, of one of the given operations, and row i
\* is matched
OneActionOn(i, operations) ==
    /\ Answered
    /\ matched[i]
    /\ Len(Actions) = 1
    /\ Actions[1].operation \in operations

\* C12: a set action (operation "set" or none) leaves newValue in the column,
\* creating it if the row lacks it, and the row counts as changed exactly when
\* newValue differs from the value the column held, scalar or sequence.
C12_SetCountsIffDifferent ==
    \A i \in 1..Len(currentData) :
        OneActionOn(i, {"", "set"}) =>
            LET column == Actions[1].column
                newValue == Actions[1].newValue
            IN  /\ response.data[i] = Put(currentData[i], column, newValue)
                /\ Len(currentData) = 1 =>
                      (response.rowCountAffected = 1 <=> Get(currentData[i], column) # newValue)

\* C13: increment (decrement) adds (subtracts) newValue when the column's value
\* and newValue are both numbers; otherwise (a numeric-looking string, an
\* absent column, ...) the row comes back as it was, without a new column.
C13_AddOnlyNumbers ==
    \A i \in 1..Len(currentData) :
        OneActionOn(i, {"increment", "decrement"}) =>
            LET column == Actions[1].column
                newValue == Actions[1].newValue
                current == Get(currentData[i], column)
                sign == IF Actions[1].operation = "increment" THEN 1 ELSE -1
            IN  IF current.t = "number" /\ newValue.t = "number"
                THEN response.data[i] = Put(currentData[i], column, Num(current.n + sign * newValue.n))
                ELSE /\ response.data[i] = currentData[i]
                     /\ DOMAIN response.data[i] = DOMAIN currentData[i]

\* C13 witness: an increment by a number on a column that holds the string
\* "42": the row comes back as it was and is not counted.
C13_Witness ==
    /\ currentData = <<[amount |-> Str(<<"4", "2">>)]>>
    /\ OneActionOn(1, {"increment"})
    /\ Actions[1].column = "amount" /\ Actions[1].newValue = Num(7)
    /\ response.data = currentData
    /\ response.rowCountAffected = 0

\* C14: append (prepend) joins current and new (new and current) when both are
\* strings or both are sequences, keeping the order of the elements; for any
\* other pair of types the row comes back as it was.
C14_ConcatenateSameKind ==
    \A i \in 1..Len(currentData) :
        OneActionOn(i, {"append", "prepend"}) =>
            LET column == Actions[1].column
                newValue == Actions[1].newValue
                current == Get(currentData[i], column)
                append == Actions[1].operation = "append"
            IN  IF current.t = "string" /\ newValue.t = "string"
                THEN response.data[i] =
                        Put(currentData[i], column,
                            Str(IF append THEN current.s \o newValue.s ELSE newValue.s \o current.s))
                ELSE IF current.t = "array" /\ newValue.t = "array"
                THEN response.data[i] =
                        Put(currentData[i], column,
                            Arr(IF append THEN current.a \o newValue.a ELSE newValue.a \o current.a))
                ELSE response.data[i] = currentData[i]

\* C14 witness: prepend of [3] to tags [1, 2] gives [3, 1, 2].
C14_Witness ==
    /\ currentData = <<TagsRow>>
    /\ OneActionOn(1, {"prepend"})
    /\ response.data = <<[tags |-> Arr(<<Num(3), Num(1), Num(2)>>)]>>

\* C15: a matched row comes back as its actions leave it when applied one
\* after the other in list order, each to the row the ones before it left;
\* an action that is skipped passes the row on to the next one.
C15_ActionsInListOrder ==
    Answered =>
        \A i \in 1..Len(currentData) :
            matched[i] => response.data[i] = JsonRow(AfterActions(i, Len(Actions)).row)

\* C15 witness: set duration to 10, then increment it by 5, on a row whose
\* duration was 20: it comes back with 15.
C15_Witness ==
    /\ Answered
    /\ Actions = << [column |-> "duration", newValue |-> Num(10), operation |-> "set"],
                    [column |-> "duration", newValue |-> Num(5), operation |-> "increment"] >>
    /\ Len(currentData) = 1
    /\ Get(currentData[1], "duration") = Num(20)
    /\ Get(response.data[1], "duration") = Num(15)

\* action k changes the value of its column in row i when it is applied
ChangesValue(i, k) ==
    Get(AfterActions(i, k - 1).row, Actions[k].column) #
        Get(AfterActions(i, k).row, Actions[k].column)

\* C16: rowCountAffected is the number of matched rows on which at least one
\* action changed the value of its column when it was applied.
C16_CountsRowsActuallyChanged ==
    Answered =>
        response.rowCountAffected =
            Cardinality({i \in 1..Len(currentData) :
                            matched[i] /\ \E k \in 1..Len(Actions) : ChangesValue(i, k)})

\* action k is skipped on row i: its operation does not fit the types of the
\* column's value and newValue, or is none of the five
IsSkipped(i, k) ==
    LET current == Get(AfterActions(i, k - 1).row, Actions[k].column)
        newValue == Actions[k].newValue
        operation == Actions[k].operation
    IN  \/ operation \in {"increment", "decrement"}
           /\ ~(current.t = "number" /\ newValue.t = "number")
        \/ operation \in {"append", "prepend"}
           /\ ~(current.t = "string" /\ newValue.t = "string")
           /\ ~(current.t = "array" /\ newValue.t = "array")
        \/ operation \notin {"", "set", "increment", "decrement", "append", "prepend"}

\* C17: for every action skipped on a matched row, the response carries a
\* skipped-action diagnostic for that row, naming the action's column.
C17_SkippedActionsReported ==
    Answered =>
        \A i \in 1..Len(currentData) : \A k \in 1..Len(Actions) :
            (matched[i] /\ IsSkipped(i, k)) =>
                \E e \in 1..Len(response.errors) :
                    /\ response.errors[e].row = i
                    /\ response.errors[e].column = Actions[k].column
                    /\ response.errors[e].message = "Skipped action"

(***************************************************************************)
(* Properties of the precedence resolver.                                  *)
(***************************************************************************)
Resolved == apc # "idle"

Ids(rs) == [j \in 1..Len(rs) |-> rs[j].id]

\* the enabled rules that are no override, in the order of the collection
EnabledPlain(rs) == SelectSeq(rs, LAMBDA rule : rule.isEnabled /\ ~IsOverride(rule))

EnabledPlainIds(rs) == {rs[j].id : j \in {k \in 1..Len(rs) : rs[k].isEnabled /\ ~IsOverride(rs[k])}}

\* the enabled overrides of the collection
EnabledOverrides(rs) == SelectSeq(rs, LAMBDA rule : rule.isEnabled /\ IsOverride(rule))

Occurrences(rs, id) == Cardinality({j \in 1..Len(rs) : rs[j].id = id})

\* C3: with an enabled PrecedenceOverride, whatever its ruleIds hold, every
\* enabled rule that is no override is in the resolved order exactly once.
C3_EachEnabledRuleOnce ==
    (Resolved /\ EnabledOverrides(rules) # <<>>) =>
        \A id \in EnabledPlainIds(rules) : Occurrences(orderedRules, id) = 1

C5_NoOverrideKeepsOrder ==
    (/\ Resolved
     /\ \A k \in 1..Len(rules) :
           ~(IsOverride(rules[k]) /\ rules[k].isEnabled /\ rules[k].ruleIds # <<>>))
    => orderedRules = EnabledPlain(rules)

\* C5 witness: the only override is disabled and lists the rules in another
\* order than the collection's; a disabled rule stands between two enabled ones.
C5_Witness ==
    /\ Resolved
    /\ rules = <<PlainRule(1, TRUE), PlainRule(2, FALSE), PlainRule(3, TRUE),
                 Override(1, FALSE, <<RuleId(3), RuleId(1)>>)>>
    /\ Ids(orderedRules) = <<RuleId(1), RuleId(3)>>

\* C6: no PrecedenceOverride and no disabled rule is in the resolved order,
\* and no PrecedenceOverride is among the visible rules.
C6_OverridesAndDisabledLeftOut ==
    /\ Resolved =>
          \A j \in 1..Len(orderedRules) :
              ~IsOverride(orderedRules[j]) /\ orderedRules[j].isEnabled
    /\ \A j \in 1..Len(VisibleRules(rules)) : ~IsOverride(VisibleRules(rules)[j])

\* C6 witness: two enabled overrides, the one in use listing its own id and a
\* disabled rule, and a resolved order that is not empty.
C6_Witness ==
    /\ Resolved
    /\ Len(EnabledOverrides(rules)) = 2
    /\ \E k \in 1..Len(rules) :
          /\ IsOverride(rules[k])
          /\ rules[k].ruleIds = <<rules[k].id, RuleId(1)>>
          /\ EnabledOverrides(rules)[1] = rules[k]
    /\ \E k \in 1..Len(rules) : rules[k] = PlainRule(1, FALSE)
    /\ orderedRules # <<>>
    /\ Len(VisibleRules(rules)) < Len(rules)

(***************************************************************************)
(* Properties of validateData, on the errors of an upload.                 *)
(***************************************************************************)
Validated == uploadStep = "parsed"

\* the primary-key cell of row i, and its text once trimmed
IdCell(i) == Get(parsedData[i], IdColumn(uploadCategory))

TrimmedId(i) == trim(String(IdCell(i)))

IdIsMissing(i) == IdCell(i).t \in {"undefined", "null"} \/ TrimmedId(i) = <<>>

\* the positions of the issues of the given severity on a row and column
IssuesOn(i, column, severity) ==
    {k \in 1..Len(allErrors) :
        /\ allErrors[k].row = i
        /\ allErrors[k].column = column
        /\ allErrors[k].severity = severity}

DuplicateIssuesOn(i) ==
    {k \in IssuesOn(i, IdColumn(uploadCategory), "error") :
        allErrors[k].message = "Duplicate ID found"}

\* C18: a row whose primary key is not empty gets no duplicate issue when no
\* earlier row holds the same trimmed key (compared case-sensitively), and
\* exactly one "error" issue on the key column when an earlier row does.
C18_LaterDuplicatesFlagged ==
    Validated =>
        \A i \in 1..Len(parsedData) :
            ~IdIsMissing(i) =>
                IF \E j \in 1..(i - 1) : ~IdIsMissing(j) /\ TrimmedId(j) = TrimmedId(i)
                THEN /\ Cardinality(IssuesOn(i, IdColumn(uploadCategory), "error")) = 1
                     /\ Cardinality(DuplicateIssuesOn(i)) = 1
                ELSE IssuesOn(i, IdColumn(uploadCategory), "error") = {}

\* C18 witness: two tasks rows with taskId "C1" and "C1 "; the only issue is an
\* error on the taskId of the second row.
C18_Witness ==
    /\ Validated
    /\ uploadCategory = "tasks"
    /\ parsedData = <<[taskId |-> Str(C1Id)], [taskId |-> Str(C1Id \o <<" ">>)]>>
    /\ allErrors = <<ValidationError(2, "taskId", "Duplicate ID found", "error")>>

\* C19: a row whose primary key is absent, null or empty once trimmed gets
\* exactly one "error" issue on the key column, and it is no duplicate-id
\* issue, however many rows have an empty key.
C19_MissingIdFlaggedOnce ==
    Validated =>
        \A i \in 1..Len(parsedData) :
            IdIsMissing(i) =>
                /\ Cardinality(IssuesOn(i, IdColumn(uploadCategory), "error")) = 1
                /\ DuplicateIssuesOn(i) = {}

\* C19 witness: two rows whose key is empty once trimmed, each with its error.
C19_Witness ==
    /\ Validated
    /\ Len(parsedData) = 2
    /\ \A i \in 1..2 :
          /\ IdCell(i).t = "string" /\ TrimmedId(i) = <<>>
          /\ Cardinality(IssuesOn(i, IdColumn(uploadCategory), "error")) = 1

\* C20: in a clients row, an email that is present, not empty and not of the
\* form local@domain gets a "warning" on email, and a status that is present
\* and not one of active, inactive, pending, vip (in any letter case) gets a
\* "warning" on status.
C20_EmailAndStatusWarned ==
    (Validated /\ uploadCategory = "clients") =>
        \A i \in 1..Len(parsedData) :
            LET email == Get(parsedData[i], "email")
                status == Get(parsedData[i], "status")
                emailGiven == email.t \notin {"undefined", "null"} /\ trim(String(email)) # <<>>
                statusGiven == status.t \notin {"undefined", "null"}
            IN  /\ (emailGiven /\ ~EmailRegexTest(trim(String(email))))
                      => IssuesOn(i, "email", "warning") # {}
                /\ (statusGiven /\ toLowerCase(String(status)) \notin validStatuses)
                      => IssuesOn(i, "status", "warning") # {}

Duplicates ==
    {j \in 1..Len(aiIdentifiedIssues) :
        \E i \in 1..Len(insightsClosure.errors) :
            SameIssue(insightsClosure.errors[i], aiIdentifiedIssues[j])}

\* the AI issues of the reply that are duplicates of the static issue i and
\* of no static issue before it, and carry a suggestedCorrection
Donors(i) ==
    {j \in Duplicates :
        /\ SameIssue(insightsClosure.errors[i], aiIdentifiedIssues[j])
        /\ \A k \in 1..(i - 1) : ~SameIssue(insightsClosure.errors[k], aiIdentifiedIssues[j])
        /\ Truthy(aiIdentifiedIssues[j].suggestedCorrection)}

\* C22: combineErrors keeps the static issues in their order; an AI issue
\* equal to a static issue in (row, column without regard to case, message)
\* adds no entry, and the first such issue that carries a suggestedCorrection
\* gives it, with its confidence, to the first static issue it equals when
\* that one has no suggestedCorrection, and changes nothing when it has one;
\* every other AI issue is appended unchanged, in AI order
C22_MergeFillsMissingAppendsRest ==
    insightsStep = "merged" =>
        LET static == insightsClosure.errors
            fresh == (1..Len(aiIdentifiedIssues)) \ Duplicates
        IN  /\ Len(combined) = Len(static) + Cardinality(fresh)
            /\ \A i \in 1..Len(static) :
                  IF Truthy(static[i].suggestedCorrection) \/ Donors(i) = {}
                  THEN combined[i] = static[i]
                  ELSE LET donor == aiIdentifiedIssues[
                                       CHOOSE j \in Donors(i) : \A k \in Donors(i) : j <= k]
                       IN  combined[i] =
                              [static[i] EXCEPT
                                  !.suggestedCorrection = donor.suggestedCorrection,
                                  !.isAIIdentified = Bool(TRUE),
                                  !.aiConfidence = donor.aiConfidence]
            /\ \A j \in fresh :
                  combined[Len(static) + Cardinality({k \in fresh : k <= j})]
                      = aiIdentifiedIssues[j]

\* a merge in which a duplicate filled a static issue, another duplicate
\* met a suggestedCorrection and left it, and a new issue was appended
C22_Witness ==
    /\ insightsStep = "merged"
    /\ Len(insightsClosure.errors) = 2 /\ Len(aiIdentifiedIssues) = 2 /\ Len(combined) = 2
    /\ Duplicates = {1, 2}
    /\ Truthy(insightsClosure.errors[1].suggestedCorrection)
    /\ Truthy(aiIdentifiedIssues[1].suggestedCorrection)
    /\ aiIdentifiedIssues[1].suggestedCorrection # insightsClosure.errors[1].suggestedCorrection
    /\ SameIssue(insightsClosure.errors[1], aiIdentifiedIssues[1])
    /\ ~Truthy(insightsClosure.errors[2].suggestedCorrection)
    /\ Truthy(combined[2].suggestedCorrection)

\* C28: handling the reply of a Smart Insights run leaves the rows of the
\* category as they are, so that a cell edit committed while the run was
\* pending is still in them
C28_NoEditLostToReply ==
    [][(insightsStep = "fetching" /\ insightsStep' # "fetching")
       => clientsData'.data = clientsData.data]_vars

(***************************************************************************)
(* Properties of RuleConfigurator.                                         *)
(***************************************************************************)
\* C23: no NaturalLanguage rule of the configurator wraps a NaturalLanguage
\* rule as its suggestedStructuredRule
C23_NoWrappedNaturalLanguage ==
    \A k \in 1..Len(configuredRules) :
        configuredRules[k].type = "naturalLanguage" =>
            configuredRules[k].suggestedStructuredRule # "naturalLanguage"

\* C24: after every step the configurator holds at most one
\* precedenceOverride rule, and a step that finds an override and leaves one
\* (a drag-reorder replaces it) leaves it with the same id
C24_AtMostOneOverrideSameId ==
    [][/\ Len(SelectSeq(configuredRules', IsOverride)) <= 1
       /\ (currentPrecedenceRule(configuredRules) # <<>>
            /\ currentPrecedenceRule(configuredRules') # <<>>)
           => currentPrecedenceRule(configuredRules')[1].id
                = currentPrecedenceRule(configuredRules)[1].id]_vars

\* two rules in the order a drag gave them, with the override that lists them
C24_Witness ==
    /\ nextId = 3
    /\ Ids(configuredRules) = <<RuleId(2), RuleId(1), OverrideId(1)>>
    /\ configuredRules[3].ruleIds = <<RuleId(2), RuleId(1)>>
    /\ configuredRules[1].isEnabled /\ configuredRules[2].isEnabled

\* C30: the order the resolver computes from the rules of the configurator
\* is the order of the enabled visible rules, top to bottom
C30_ResolverOrderIsListOrder ==
    Ids(OrderedRules(configuredRules))
        = Ids(SelectSeq(VisibleRules(configuredRules), LAMBDA rule : rule.isEnabled))

\* a rule dragged onto its own place, then disabled, and a rule created
\* since, which the override does not list
C30_Witness ==
    /\ Ids(configuredRules) = <<RuleId(1), OverrideId(1), RuleId(2)>>
    /\ configuredRules[2].ruleIds = <<RuleId(1)>>
    /\ ~configuredRules[1].isEnabled
    /\ configuredRules[3].isEnabled

(***************************************************************************)
(* Properties of DataModifier.                                             *)
(***************************************************************************)
\* the step in which handleModifyData handles the Response
ModifyReplyStep == modifierStep = "fetching" /\ modifierStep' = "idle"

\* the Response is one handleModifyData accepts
Accepted == response.status = 200 /\ response.success /\ response.hasData

\* C26: a Response whose instructions require confirmation, to a request the
\* confirm button did not issue, leaves the dataset as it is and puts the
\* instructions on display; Cancel leaves the dataset as it is
C26_NoChangeBeforeConfirm ==
    [][/\ (ModifyReplyStep /\ Accepted /\ ~confirmFlag
           /\ response.instructions.confirmationRequired.b)
          => /\ clientsData' = clientsData
             /\ confirmationNeeded'
             /\ proposedInstructions' = response.instructions
       /\ (confirmationNeeded /\ ~confirmationNeeded' /\ modifierStep' = "idle")
          => clientsData' = clientsData]_vars

\* a proposal on display, the dataset without the flag it proposes to set
C26_Witness ==
    /\ modifierStep = "idle"
    /\ confirmationNeeded
    /\ proposedInstructions.actions.items = <<SetFlag>>
    /\ proposedInstructions.confirmationRequired.b
    /\ ~confirmFlag
    /\ "flag" \notin DOMAIN clientsData.data[1]

\* C27: the update applied after Confirm & Apply Changes is the one of the
\* instructions that were on display
C27_AppliesWhatWasDisplayed ==
    [][(ModifyReplyStep /\ Accepted /\ confirmFlag)
       => /\ response.instructions.filters = displayedInstructions.filters
          /\ response.instructions.actions = displayedInstructions.actions]_vars

(***************************************************************************)
(* Properties of the allocation analysis of the page.                      *)
(***************************************************************************)
\* C25: the rules in the body of the analyze-allocation request are the
\* rules the configurator holds when the analysis is run
C25_AnalyzerGetsConfiguredRules ==
    [][(analysisStep = "idle" /\ analysisStep' = "fetching")
       => Ids(rules') = Ids(configuredRules)]_vars

\* C29: a result on display answers a request whose datasets are the
\* datasets the page holds
C29_ResultOfLoadedData ==
    allocationAnalysisResult # "none" =>
        analysisRequest =
            <<[clientsData |-> clientsData.data, workersData |-> workersData.data,
               tasksData |-> tasksData.data]>>
====
